---- MODULE Spec2Model ----
(***************************************************************************)
(* Model of the sidereal chart engine of tamil-astrology-ai: the           *)
(* coordinate mapper, the ayanamsa conversion, the Vimshottari Dasha /     *)
(* Bhukti generator and its current-period lookup, as implemented by       *)
(* VedicAstroCalculator, AccurateVedicCalculator and                       *)
(* SkyfieldVedicCalculator.                                                *)
(*                                                                         *)
(* Number representation.  The code computes with floats, datetimes and    *)
(* timedeltas.  The model is fixed point and exact:                        *)
(*   - a longitude is an integer count of 1/30000 degree (a third of the   *)
(*     1e-4 degree step that round(x, 4) keeps in the chart);              *)
(*   - an instant is an integer count of minutes (the resolution of the    *)
(*     "%Y-%m-%d %H:%M" birth instant) since 2000-01-01 00:00 civil time;  *)
(*     timedelta(days=x) rounds x to the nearest tick, half to even, as    *)
(*     the datetime module rounds to its own resolution;                   *)
(*   - a date string "%Y-%m-%d" is the day number of an instant; dates     *)
(*     compare and parse as the strings do.                                *)
(***************************************************************************)
EXTENDS Integers, Sequences, FiniteSets, TLC

VARIABLES pc, chart, locals

vars == <<pc, chart, locals>>

----------------------------------------------------------------------------
(* Bounds of the explored input space *)

\* number of position-provider answers (sidereal sample points) explored
NumSamples == 324

\* civil dates explored: days before and after 2000-01-01 (1900-01-01 .. 2100-12-31)
DaysBefore == 36524
DaysAfter == 36889

----------------------------------------------------------------------------
(* Units *)

LonUnitsPerDegree == 3 * 10000
FullCircle == 360 * LonUnitsPerDegree
RasiSpan == 30 * LonUnitsPerDegree
NakshatraSpan == FullCircle \div 27
PadaSpan == NakshatraSpan \div 4

TicksPerDay == 24 * 60
\* 365.25 days, the fixed year length of the period arithmetic
TicksPerYear == (1461 * TicksPerDay) \div 4

----------------------------------------------------------------------------
(* Exact arithmetic helpers *)

RECURSIVE MulDivFrom(_, _, _, _, _, _)
\* long multiplication and division, one hexadecimal digit of a per step: after
\* the digits above p are consumed, <<q, r>> is the quotient and remainder of
\* (their value) * n by d
MulDivFrom(a, n, d, p, q, r) ==
    IF p = 0 THEN <<q, r>>
    ELSE MulDivFrom(a, n, d, p \div 16,
                    16 * q + ((16 * r + ((a \div p) % 16) * n) \div d),
                    (16 * r + ((a \div p) % 16) * n) % d)

\* <<quotient, remainder>> of a * n divided by d, for a >= 0 and d + n < 2^27,
\* such that no intermediate product leaves the machine integer range
MulDiv(a, n, d) ==
    IF a <= 2147483647 \div n THEN <<(a * n) \div d, (a * n) % d>>
    ELSE MulDivFrom(a, n, d, 268435456, 0, 0)

\* round(a * n / d), ties to the even neighbour
MulDivRound(a, n, d) ==
    LET qr == MulDiv(a, n, d)
    IN IF 2 * qr[2] > d \/ (2 * qr[2] = d /\ qr[1] % 2 = 1)
       THEN qr[1] + 1 ELSE qr[1]

\* floor(a * n / d) for a of either sign
MulDivFloor(a, n, d) ==
    IF a >= 0 THEN MulDiv(a, n, d)[1]
    ELSE LET qr == MulDiv(-a, n, d)
         IN IF qr[2] = 0 THEN -qr[1] ELSE -(qr[1] + 1)

\* round(x, digits) of a longitude: step is the number of units per kept digit
RoundTo(x, step) == step * MulDivRound(x, 1, step)

\* timedelta(days = (num / den) * 365): a year without its quarter day
timedelta_years_365(num, den) == MulDivRound(num, 365 * TicksPerDay, den)

\* timedelta(days = (num / den) * 365.25), in ticks
timedelta_years(num, den) == MulDivRound(num, TicksPerYear, den)

\* strftime("%Y-%m-%d") of an instant and strptime("%Y-%m-%d") of a date
strftime(t) == t \div TicksPerDay
strptime(d) == d * TicksPerDay

----------------------------------------------------------------------------
(* config.py tables (0-based in the code, 1-based sequences here) *)

DASHA_ORDER ==
    <<"Ketu", "Venus", "Sun", "Moon", "Mars", "Rahu", "Jupiter", "Saturn", "Mercury">>

DASHA_YEARS ==
    [l \in {"Ketu", "Venus", "Sun", "Moon", "Mars", "Rahu", "Jupiter", "Saturn", "Mercury"} |->
        CASE l = "Ketu" -> 7
          [] l = "Venus" -> 20
          [] l = "Sun" -> 6
          [] l = "Moon" -> 10
          [] l = "Mars" -> 7
          [] l = "Rahu" -> 18
          [] l = "Jupiter" -> 16
          [] l = "Saturn" -> 19
          [] l = "Mercury" -> 17]

\* the lords of the mansions with the 13th and 14th entries exchanged
NAKSHATRA_LORDS_exchanged ==
    <<"Ketu", "Venus", "Sun", "Moon", "Mars", "Rahu", "Jupiter", "Saturn", "Mercury",
      "Ketu", "Venus", "Sun", "Mars", "Moon", "Rahu", "Jupiter", "Saturn", "Mercury",
      "Ketu", "Venus", "Sun", "Moon", "Mars", "Rahu", "Jupiter", "Saturn", "Mercury">>

NAKSHATRA_LORDS ==
    <<"Ketu", "Venus", "Sun", "Moon", "Mars", "Rahu", "Jupiter", "Saturn", "Mercury",
      "Ketu", "Venus", "Sun", "Moon", "Mars", "Rahu", "Jupiter", "Saturn", "Mercury",
      "Ketu", "Venus", "Sun", "Moon", "Mars", "Rahu", "Jupiter", "Saturn", "Mercury">>

\* the position of lord counted from 1
DashaIndex_from1(lord) ==
    CHOOSE i \in 1..Len(DASHA_ORDER) : DASHA_ORDER[i] = lord

\* DASHA_ORDER.index(lord): 0-based position of the first occurrence
DashaIndex(lord) ==
    CHOOSE i \in 0..(Len(DASHA_ORDER) - 1) :
        /\ DASHA_ORDER[i + 1] = lord
        /\ \A j \in 0..(i - 1) : DASHA_ORDER[j + 1] # lord

----------------------------------------------------------------------------
(* Coordinate mapper *)

\* the remainder with the sign of the dividend, as C's fmod gives it
tropical_to_sidereal_fmod(tropical_lon, ayanamsa) ==
    IF tropical_lon >= ayanamsa THEN (tropical_lon - ayanamsa) % FullCircle
    ELSE -((ayanamsa - tropical_lon) % FullCircle)

tropical_to_sidereal(tropical_lon, ayanamsa) == (tropical_lon - ayanamsa) % FullCircle

longitude_to_rasi(longitude) == (longitude \div RasiSpan) % 12

\* the mansion rounded to the nearest instead of truncated
longitude_to_nakshatra_round(longitude) ==
    [nakshatra |-> ((longitude + NakshatraSpan \div 2) \div NakshatraSpan) % 27,
     pada |-> ((longitude % NakshatraSpan) \div PadaSpan) + 1]

longitude_to_nakshatra(longitude) ==
    [nakshatra |-> (longitude \div NakshatraSpan) % 27,
     pada |-> ((longitude % NakshatraSpan) \div PadaSpan) + 1]

----------------------------------------------------------------------------
(* Ayanamsa models of the three calculators.  jd is the Julian Day as ticks *)
(* since J2000.0 (JD 2451545.0); the result is in longitude units.          *)

\* 23.8530556 degrees
AYANAMSA_J2000 == 715592
\* 23.85 degrees
AYANAMSA_BASE == 715500
\* (50.2388475 / 3600) degrees, multiplied in the code by (jd - 2451545.0),
\* a number of days: 50.2388475 * 30000 / (3600 * 1440) units per tick
ACCURATE_RATE_NUM == 6698513
ACCURATE_RATE_DEN == 23040000
\* (50.29 / 3600) degrees per year of 365.25 days:
\* 50.29 * 30000 / (3600 * 365.25 * 1440) units per tick
PRECESSION_RATE_NUM == 5029
PRECESSION_RATE_DEN == 6311520

\* AccurateVedicCalculator.get_ayanamsa
accurate_get_ayanamsa(jd) ==
    AYANAMSA_J2000 + MulDivFloor(jd, ACCURATE_RATE_NUM, ACCURATE_RATE_DEN)

\* SkyfieldVedicCalculator.get_ayanamsa
skyfield_get_ayanamsa(jd) ==
    AYANAMSA_J2000 + MulDivFloor(jd, PRECESSION_RATE_NUM, PRECESSION_RATE_DEN)

\* VedicAstroCalculator.get_ayanamsa
astro_get_ayanamsa(jd) ==
    AYANAMSA_BASE + MulDivFloor(jd, PRECESSION_RATE_NUM, PRECESSION_RATE_DEN)

get_ayanamsa(calc, jd) ==
    CASE calc = "accurate" -> accurate_get_ayanamsa(jd)
      [] calc = "skyfield" -> skyfield_get_ayanamsa(jd)
      [] calc = "astro" -> astro_get_ayanamsa(jd)

\* the Julian Day of J2000.0, which every formula of the code subtracts
JD_J2000 == 2451545

\* int(num / den): truncation towards zero
int(num, den) == IF num >= 0 THEN num \div den ELSE -((-num) \div den)

\* days from 0000-03-01 to 2000-01-01 in the proleptic Gregorian calendar
DaysToEpoch == 730425

\* the year, month, day and minute of the day of an instant, as the fields of
\* a datetime give them (proleptic Gregorian calendar)
civil(t) ==
    LET z == (t \div TicksPerDay) + DaysToEpoch
        era == z \div 146097
        doe == z % 146097
        yoe == (doe - (doe \div 1460) + (doe \div 36524) - (doe \div 146096)) \div 365
        doy == doe - (365 * yoe + (yoe \div 4) - (yoe \div 100))
        mp == (5 * doy + 2) \div 153
        month == IF mp < 10 THEN mp + 3 ELSE mp - 9
    IN [year |-> yoe + era * 400 + (IF month <= 2 THEN 1 ELSE 0),
        month |-> month,
        day |-> doy - ((153 * mp + 2) \div 5) + 1,
        minute |-> t % TicksPerDay]

\* the sum of datetime_to_jd once January and February are moved to the end of
\* the previous year; hour is in ticks, the result in ticks since J2000.0:
\* int(365.25 * (year + 4716)) + int(30.6001 * (month + 1)) + day + hour/24.0
\*   + B - 1524.5
jd_sum(year, month, day, hour) ==
    LET A == int(year, 100)
        B == 2 - A + int(A, 4)
        days == int(1461 * (year + 4716), 4) + int(306001 * (month + 1), 10000)
                  + day + B - 1524
    IN (days - JD_J2000) * TicksPerDay + hour - (TicksPerDay \div 2)

\* the adjustment made for the first month only
datetime_to_jd_civil_january(year, month, day, hour) ==
    IF month < 2 THEN jd_sum(year - 1, month + 12, day, hour)
    ELSE jd_sum(year, month, day, hour)

\* datetime_to_jd(year, month, day, hour) - 2451545.0, in ticks
datetime_to_jd_civil(year, month, day, hour) ==
    IF month <= 2 THEN jd_sum(year - 1, month + 12, day, hour)
    ELSE jd_sum(year, month, day, hour)

\* the Julian Day of a UTC instant, from the fields of the datetime
jd_of_fields(c) == datetime_to_jd_civil(c.year, c.month, c.day, c.minute)

\* datetime_to_jd(utc_dt.year, utc_dt.month, utc_dt.day, hour_decimal)
\* - 2451545.0, in ticks: J2000.0 is 2000-01-01 12:00
datetime_to_jd(utc_dt) == jd_of_fields(civil(utc_dt))

----------------------------------------------------------------------------
(* Dasha engine *)

None == <<>>

RECURSIVE bhukti_loop(_, _, _, _, _, _), bhukti_pass(_, _, _, _, _, _, _)
\* the loop of calculate_bhukti at the start of pass i
bhukti_loop(i, start_index, current_date, years_num, years_den, bhukti_periods) ==
    IF i = 9 THEN bhukti_periods
    ELSE bhukti_pass(i, start_index, current_date, years_num, years_den, bhukti_periods,
             \* end_date = current_date +
             \*   timedelta(days = (dasha_years * DASHA_YEARS[bhukti_lord] / 120) * 365.25)
             current_date + timedelta_years(
                 years_num * DASHA_YEARS[DASHA_ORDER[((start_index + i) % 9) + 1]],
                 years_den * 120))

\* one pass of the loop of calculate_bhukti, end_date computed
bhukti_pass(i, start_index, current_date, years_num, years_den, bhukti_periods, end_date) ==
    bhukti_loop(i + 1, start_index, end_date, years_num, years_den,
        Append(bhukti_periods,
               [lord     |-> DASHA_ORDER[((start_index + i) % 9) + 1],
                start    |-> strftime(current_date),
                end      |-> strftime(end_date),
                start_dt |-> current_date,
                end_dt   |-> end_date]))

\* the Bhukti cycle started from the head of DASHA_ORDER
calculate_bhukti_from_head(dasha_lord, dasha_start, years_num, years_den) ==
    bhukti_loop(0, 0, dasha_start, years_num, years_den, <<>>)

\* calculate_bhukti: dasha_years is the exact fraction years_num / years_den
calculate_bhukti(dasha_lord, dasha_start, years_num, years_den) ==
    bhukti_loop(0, DashaIndex(dasha_lord), dasha_start, years_num, years_den, <<>>)

\* one entry of dasha_periods; years = years_num / years_den
dasha_entry(lord, current_date, end_date, years_num, years_den) ==
    [lord       |-> lord,
     start      |-> strftime(current_date),
     end        |-> strftime(end_date),
     start_dt   |-> current_date,
     end_dt     |-> end_date,
     \* the years field in hundredths: round(first_dasha_remaining, 2), or years
     years_x100 |-> MulDivRound(years_num, 100, years_den),
     bhukti     |-> calculate_bhukti(lord, current_date, years_num, years_den)]

RECURSIVE dasha_loop(_, _, _, _), dasha_pass(_, _, _, _, _, _)
\* the loop "for i in range(1, 9)" of calculate_dasha at the start of pass i
dasha_loop(i, start_index, current_date, periods) ==
    IF i = 9 THEN periods
    ELSE dasha_pass(i, start_index, current_date, periods,
             DASHA_ORDER[((start_index + i) % 9) + 1],
             current_date
               + timedelta_years(DASHA_YEARS[DASHA_ORDER[((start_index + i) % 9) + 1]], 1))

\* one pass that starts the next period on the day after this one ends
dasha_pass_next_day(i, start_index, current_date, periods, lord, end_date) ==
    dasha_loop(i + 1, start_index, end_date + TicksPerDay,
        Append(periods, dasha_entry(lord, current_date, end_date, DASHA_YEARS[lord], 1)))

\* one pass of the loop of calculate_dasha, lord and end_date computed
dasha_pass(i, start_index, current_date, periods, lord, end_date) ==
    dasha_loop(i + 1, start_index, end_date,
        Append(periods, dasha_entry(lord, current_date, end_date, DASHA_YEARS[lord], 1)))

\* the first (birth) dasha, then the loop; first_dasha_remaining is
\* remaining_num / NakshatraSpan
first_dasha(birth_dt, start_lord, remaining_num, end_date) ==
    dasha_loop(1, DashaIndex(start_lord), end_date,
        <<dasha_entry(start_lord, birth_dt, end_date, remaining_num, NakshatraSpan)>>)

\* the nine periods built by calculate_dasha before the current-period lookup
dasha_periods(birth_dt, moon_longitude) ==
    LET nakshatra_index == (moon_longitude \div NakshatraSpan) % 27
        \* position_in_nak = position_num / NakshatraSpan
        position_num == moon_longitude % NakshatraSpan
        start_lord == NAKSHATRA_LORDS[nakshatra_index + 1]
        first_dasha_total == DASHA_YEARS[start_lord]
        remaining_num == first_dasha_total * (NakshatraSpan - position_num)
    IN first_dasha(birth_dt, start_lord, remaining_num,
                   birth_dt + timedelta_years(remaining_num, NakshatraSpan))

\* index of the last entry with strptime(start) <= today <= strptime(end), else 0
FirstContaining_last(periods, today) ==
    LET hits == {i \in DOMAIN periods :
                    /\ strptime(periods[i].start) <= today
                    /\ today <= strptime(periods[i].end)}
    IN IF hits = {} THEN 0 ELSE CHOOSE i \in hits : \A j \in hits : i >= j

\* index of the first entry with strptime(start) <= today <= strptime(end), else 0
FirstContaining(periods, today) ==
    LET hits == {i \in DOMAIN periods :
                    /\ strptime(periods[i].start) <= today
                    /\ today <= strptime(periods[i].end)}
    IN IF hits = {} THEN 0 ELSE CHOOSE i \in hits : \A j \in hits : i <= j

\* what the lookup keeps of the matching entry
current_entry(index, period, today) ==
    <<[index |-> index,
       lord |-> period.lord,
       start |-> period.start,
       end |-> period.end,
       remaining_days |-> (strptime(period.end) - today) \div TicksPerDay]>>

\* the dictionary calculate_dasha returns: d and b are the indices found
dasha_result(all, today, d, b) ==
    [all |-> all,
     current_dasha |-> IF d = 0 THEN None ELSE current_entry(d, all[d], today),
     current_bhukti |-> IF b = 0 THEN None ELSE current_entry(b, all[d].bhukti[b], today)]

\* the two nested lookup loops of calculate_dasha
find_current(all, today, d) ==
    dasha_result(all, today, d,
                 IF d = 0 THEN 0 ELSE FirstContaining(all[d].bhukti, today))

\* calculate_dasha from "Find current dasha and bhukti" on: all is the list
\* built so far, today the reading of datetime.now()
calculate_dasha(all, today) == find_current(all, today, FirstContaining(all, today))

----------------------------------------------------------------------------
(* Chart calculation *)

\* bodies whose tropical longitude the position provider answers
Planets == <<"Sun", "Moon", "Mars", "Mercury", "Jupiter", "Venus", "Saturn">>
Provided == {Planets[i] : i \in DOMAIN Planets} \cup {"Rahu", "Lagna"}
Bodies == Provided \cup {"Ketu"}

\* units per digit kept by round(): 4 digits, and 2 in VedicAstroCalculator
RoundStep(calc) == IF calc = "astro" THEN LonUnitsPerDegree \div 100
                   ELSE LonUnitsPerDegree \div 10000

\* the chart entry of one body
Placement(calc, sid) ==
    LET rasi == longitude_to_rasi(sid)
        np == longitude_to_nakshatra(sid)
    IN IF calc = "astro"
       THEN [rasi |-> rasi, nakshatra |-> np.nakshatra, pada |-> np.pada,
             paagai |-> RoundTo(sid % RasiSpan, RoundStep(calc))]
       ELSE [rasi |-> rasi, rasi_en |-> rasi + 1,
             nakshatra |-> np.nakshatra, nakshatra_en |-> np.nakshatra + 1,
             pada |-> np.pada,
             paagai |-> RoundTo(sid % RasiSpan, RoundStep(calc)),
             muzhu_paagai |-> RoundTo(sid, RoundStep(calc))]

\* Ketu from Rahu without the reduction mod 360
opposite_node_unreduced(rahu_lon) == rahu_lon + 180 * LonUnitsPerDegree

\* Ketu from Rahu: (rahu + 180) % 360
opposite_node(rahu_lon) == (rahu_lon + 180 * LonUnitsPerDegree) % FullCircle

\* calculate_birth_chart up to the Dasha section: answers[b] is the provider's
\* tropical longitude of b; the handler's local values are kept beside the chart
chart_positions(calc, birth_dt, tz_offset, answers) ==
    LET utc_dt == birth_dt - tz_offset
        jd == datetime_to_jd(utc_dt)
        ayanamsa == get_ayanamsa(calc, jd)
        rahu_sid == tropical_to_sidereal(answers["Rahu"], ayanamsa)
        \* SkyfieldVedicCalculator.calculate_rahu_ketu
        ketu_trop == opposite_node(answers["Rahu"])
        ketu_sid == IF calc = "skyfield"
                    THEN tropical_to_sidereal(ketu_trop, ayanamsa)
                    ELSE opposite_node(rahu_sid)
        sidereal == [b \in Bodies |->
                        IF b = "Ketu" THEN ketu_sid
                        ELSE tropical_to_sidereal(answers[b], ayanamsa)]
    IN [chart |->
          [calc |-> calc,
           ayanamsa |-> ayanamsa,
           planets |-> [b \in Bodies \ {"Lagna"} |-> Placement(calc, sidereal[b])],
           lagna |-> Placement(calc, sidereal["Lagna"]),
           janma_nakshatra |-> longitude_to_nakshatra(sidereal["Moon"]).nakshatra,
           rasi |-> longitude_to_rasi(sidereal["Moon"])],
        locals |->
          [birth_dt |-> birth_dt,
           today |-> None,
           jd |-> jd,
           tropical |-> [b \in Bodies |-> IF b = "Ketu" THEN ketu_trop ELSE answers[b]],
           sidereal |-> sidereal]]

\* calculate_birth_chart: the positions, then chart["dasha"] = calculate_dasha(...)
calculate_birth_chart(positions, dasha) ==
    [chart |-> [f \in DOMAIN positions.chart \cup {"dasha"} |->
                   IF f = "dasha" THEN dasha ELSE positions.chart[f]],
     locals |-> positions.locals]

----------------------------------------------------------------------------
(* Explored inputs *)

\* offsets inside a pada: its first point, its last point, then interior points
OffsetStride == PadaSpan \div 3
SampleOffset(j) == CASE j = 0 -> 0
                     [] j = 1 -> PadaSpan - 1
                     [] OTHER -> ((j - 1) * OffsetStride) % PadaSpan

\* sample point k: pada (k mod 108) of the zodiac at offset (k div 108)
SidSample(k) == (k % 108) * PadaSpan + SampleOffset(k \div 108)

BodyShift(b) == CASE b = "Moon" -> 0
                  [] b = "Sun" -> 37
                  [] b = "Mars" -> 74
                  [] b = "Mercury" -> 111
                  [] b = "Jupiter" -> 148
                  [] b = "Venus" -> 185
                  [] b = "Saturn" -> 222
                  [] b = "Rahu" -> 259
                  [] b = "Lagna" -> 296

\* answer k of the position provider for an instant whose ayanamsa is given:
\* the tropical longitudes whose sidereal images are the sample points
ProviderAnswer(k, ayanamsa) ==
    [b \in Provided |->
        (SidSample((k + BodyShift(b)) % NumSamples) + ayanamsa) % FullCircle]

\* birth instants: 1990-05-15 10:30, 2000-01-01 00:00, 2024-02-29 23:59
BirthSamples == {(-3518) * TicksPerDay + 630, 0, 8825 * TicksPerDay + 1439}

\* Asia/Kolkata, the timezone of the default location
TzOffsets == {330}

\* wall-clock readings: around the emitted boundaries of the first, second and
\* last period, the birth instant and the instant the last period ends
TodaySamples(all, birth_dt) ==
    {strptime(d) + o : d \in {all[1].start, all[2].start, all[9].start, all[9].end},
                       o \in {-1, 0, 1}}
      \cup {birth_dt, birth_dt - 1, all[9].end_dt, all[5].start_dt + 7 * TicksPerDay}

----------------------------------------------------------------------------
(* State machine: one chart request *)

Init ==
    /\ pc = "idle"
    /\ chart = None
    /\ locals = None

CalculateBirthChart(calc) ==
    /\ pc = "idle"
    /\ \E birth_dt \in BirthSamples, tz_offset \in TzOffsets, k \in 0..(NumSamples - 1) :
       \E ayanamsa \in {get_ayanamsa(calc, datetime_to_jd(birth_dt - tz_offset))} :
       \E positions \in {chart_positions(calc, birth_dt, tz_offset,
                                         ProviderAnswer(k, ayanamsa))} :
       \E all \in {dasha_periods(birth_dt, positions.locals.sidereal["Moon"])} :
       \E today \in TodaySamples(all, birth_dt) :
       \E r \in {calculate_birth_chart(positions, calculate_dasha(all, today))} :
          /\ chart' = r.chart
          /\ locals' = [r.locals EXCEPT !.today = today]
          /\ pc' = "done"

VedicAstroCalculateBirthChart == CalculateBirthChart("astro")

AccurateCalculateBirthChart == CalculateBirthChart("accurate")

SkyfieldCalculateBirthChart == CalculateBirthChart("skyfield")

Next ==
    \/ VedicAstroCalculateBirthChart
    \/ AccurateCalculateBirthChart
    \/ SkyfieldCalculateBirthChart

Spec == Init /\ [][Next]_vars

----------------------------------------------------------------------------
(* Compatibility (Porutham) *)

Abs(x) == IF x < 0 THEN -x ELSE x

\* the table with mansion 26 in no group
gana_groups_short ==
    <<[gana |-> "deva", naks |-> {0, 4, 6, 7, 12, 16, 21}],
      [gana |-> "manitha", naks |-> {1, 3, 5, 10, 11, 19, 20, 24, 25}],
      [gana |-> "asura", naks |-> {2, 8, 9, 13, 14, 15, 17, 18, 22, 23}]>>

\* gana_groups, in the order the dictionary is iterated
gana_groups ==
    <<[gana |-> "deva", naks |-> {0, 4, 6, 7, 12, 16, 21, 26}],
      [gana |-> "manitha", naks |-> {1, 3, 5, 10, 11, 19, 20, 24, 25}],
      [gana |-> "asura", naks |-> {2, 8, 9, 13, 14, 15, 17, 18, 22, 23}]>>

rajju_groups ==
    <<{0, 5, 6, 11, 12, 17, 18, 23, 24},
      {1, 4, 7, 10, 13, 16, 19, 22, 25},
      {2, 3, 8, 9, 14, 15, 20, 21, 26}>>

\* the R5 table in the place of the R10 table
nadi_groups_rajju == rajju_groups

nadi_groups ==
    <<{0, 3, 6, 9, 12, 15, 18, 21, 24},
      {1, 4, 7, 10, 13, 16, 19, 22, 25},
      {2, 5, 8, 11, 14, 17, 20, 23, 26}>>

\* "for i, group in enumerate(groups): if idx in group: found = i", found = 0
\* before the loop: the last group that holds idx, counted from 0
GroupOf(groups, idx) ==
    LET hits == {i \in DOMAIN groups : idx \in groups[i]}
    IN IF hits = {} THEN 0 ELSE (CHOOSE i \in hits : \A j \in hits : j <= i) - 1

\* "for gana, naks in gana_groups.items(): if idx in naks: found = gana",
\* found = None before the loop
GanaOf(idx) ==
    LET hits == {i \in DOMAIN gana_groups : idx \in gana_groups[i].naks}
    IN IF hits = {} THEN None
       ELSE gana_groups[CHOOSE i \in hits : \A j \in hits : j <= i].gana

\* an entry whose value is 1 for a failed rule
porutham_inverted(good) == [good |-> good, value |-> IF good THEN 0 ELSE 1]

\* one entry of poruthams
porutham(good) == [good |-> good, value |-> IF good THEN 1 ELSE 0]

\* the ten rules of calculate_compatibility, in the order they are inserted
RuleNames ==
    <<"dina", "gana", "rasi", "yoni", "rajju",
      "vedha", "vasya", "mahendra", "stree_deergha", "nadi">>

\* poruthams with the count of rule 9 taken from the second chart to the first
poruthams_stree_reversed(nak1_idx, rasi1_idx, nak2_idx, rasi2_idx) ==
    LET dina_count == ((nak2_idx - nak1_idx) % 27) + 1
        rasi_diff == (rasi2_idx - rasi1_idx) % 12
        gana1 == GanaOf(nak1_idx)
        gana2 == GanaOf(nak2_idx)
        mahendra_count == ((nak2_idx - nak1_idx) % 27) + 1
        stree_count == ((nak1_idx - nak2_idx) % 27) + 1
    IN [rule \in {RuleNames[i] : i \in DOMAIN RuleNames} |->
          porutham(
            CASE rule = "dina" ->
                   dina_count \notin {2, 4, 6, 8, 9, 11, 13, 15, 18, 20, 22, 24, 26}
              [] rule = "gana" ->
                   (gana1 = gana2) \/ (gana1 = "deva") \/ (gana2 = "deva")
              [] rule = "rasi" -> rasi_diff \in {1, 2, 3, 4, 5, 7, 9, 11}
              [] rule = "yoni" -> Abs(nak1_idx - nak2_idx) % 2 = 0
              [] rule = "rajju" ->
                   GroupOf(rajju_groups, nak1_idx) # GroupOf(rajju_groups, nak2_idx)
              [] rule = "vedha" -> Abs(nak1_idx - nak2_idx) \notin {1, 3, 5, 7}
              [] rule = "vasya" -> rasi_diff \in {2, 5, 6, 8, 9}
              [] rule = "mahendra" -> mahendra_count \in {4, 7, 10, 13, 16, 19, 22, 25}
              [] rule = "stree_deergha" -> stree_count >= 13
              [] rule = "nadi" ->
                   GroupOf(nadi_groups, nak1_idx) # GroupOf(nadi_groups, nak2_idx))]

\* poruthams as calculate_compatibility fills it
poruthams(nak1_idx, rasi1_idx, nak2_idx, rasi2_idx) ==
    LET dina_count == ((nak2_idx - nak1_idx) % 27) + 1
        rasi_diff == (rasi2_idx - rasi1_idx) % 12
        gana1 == GanaOf(nak1_idx)
        gana2 == GanaOf(nak2_idx)
        mahendra_count == ((nak2_idx - nak1_idx) % 27) + 1
        stree_count == ((nak2_idx - nak1_idx) % 27) + 1
    IN [rule \in {RuleNames[i] : i \in DOMAIN RuleNames} |->
          porutham(
            CASE rule = "dina" ->
                   dina_count \notin {2, 4, 6, 8, 9, 11, 13, 15, 18, 20, 22, 24, 26}
              [] rule = "gana" ->
                   (gana1 = gana2) \/ (gana1 = "deva") \/ (gana2 = "deva")
              [] rule = "rasi" -> rasi_diff \in {1, 2, 3, 4, 5, 7, 9, 11}
              [] rule = "yoni" -> Abs(nak1_idx - nak2_idx) % 2 = 0
              [] rule = "rajju" ->
                   GroupOf(rajju_groups, nak1_idx) # GroupOf(rajju_groups, nak2_idx)
              [] rule = "vedha" -> Abs(nak1_idx - nak2_idx) \notin {1, 3, 5, 7}
              [] rule = "vasya" -> rasi_diff \in {2, 5, 6, 8, 9}
              [] rule = "mahendra" -> mahendra_count \in {4, 7, 10, 13, 16, 19, 22, 25}
              [] rule = "stree_deergha" -> stree_count >= 13
              [] rule = "nadi" ->
                   GroupOf(nadi_groups, nak1_idx) # GroupOf(nadi_groups, nak2_idx))]

\* len(poruthams): the number of rules instead of the sum of their values
SumValues_len(p, rules) == Cardinality(rules)

RECURSIVE SumValues(_, _)
\* sum(p["value"] for p in poruthams.values()) over the keys in rules
SumValues(p, rules) ==
    IF rules = {} THEN 0
    ELSE LET r == CHOOSE x \in rules : TRUE
         IN p[r].value + SumValues(p, rules \ {r})

\* the bands with strict comparisons
recommendation_strict(total) ==
    IF total > 8 THEN "excellent"
    ELSE IF total > 6 THEN "good"
    ELSE IF total > 4 THEN "average"
    ELSE "low"

\* the recommendation: the four verdict strings, best first
recommendation(total) ==
    IF total >= 8 THEN "excellent"
    ELSE IF total >= 6 THEN "good"
    ELSE IF total >= 4 THEN "average"
    ELSE "low"

\* what calculate_compatibility returns once the rules are filled; the total
\* is emitted as the text "<total>/10"
compatibility_result(nak1_idx, rasi1_idx, nak2_idx, rasi2_idx, p, total) ==
    [person1 |-> [nakshatra |-> nak1_idx, rasi |-> rasi1_idx],
     person2 |-> [nakshatra |-> nak2_idx, rasi |-> rasi2_idx],
     poruthams |-> p,
     total |-> total,
     out_of |-> 10,
     recommendation |-> recommendation(total)]

\* calculate_compatibility from the indices of the two charts on
calculate_compatibility(nak1_idx, rasi1_idx, nak2_idx, rasi2_idx) ==
    LET p == poruthams(nak1_idx, rasi1_idx, nak2_idx, rasi2_idx)
    IN compatibility_result(nak1_idx, rasi1_idx, nak2_idx, rasi2_idx, p,
                            SumValues(p, DOMAIN p))

----------------------------------------------------------------------------
(* State machine: one compatibility request on two charts *)

\* Janma nakshatra and rasi indices of the two charts calculate_birth_chart
\* returned
CalculateCompatibility ==
    /\ pc = "idle"
    /\ \E nak1_idx \in 0..26, rasi1_idx \in 0..11, nak2_idx \in 0..26, rasi2_idx \in 0..11 :
          /\ chart' = calculate_compatibility(nak1_idx, rasi1_idx, nak2_idx, rasi2_idx)
          /\ locals' = [nak1_idx |-> nak1_idx, rasi1_idx |-> rasi1_idx,
                        nak2_idx |-> nak2_idx, rasi2_idx |-> rasi2_idx]
          /\ pc' = "compatibility_done"

CompatibilityNext == CalculateCompatibility

CompatibilitySpec == Init /\ [][CompatibilityNext]_vars

----------------------------------------------------------------------------
(* State machine: Julian Day of a civil date and of the next calendar day *)

\* times of the day: midnight, 05:30, noon, the last minute
HourSamples == {0, 330, 720, 1439}

\* the Julian Days of day number n (counted from 2000-01-01) and of the day
\* after it, at the same time of the day
jd_pair(date, next) ==
    [jd |-> datetime_to_jd_civil(date.year, date.month, date.day, date.minute),
     jd_next |-> datetime_to_jd_civil(next.year, next.month, next.day, next.minute)]

DatetimeToJd ==
    /\ pc = "idle"
    /\ \E n \in (-DaysBefore)..DaysAfter, minute \in HourSamples :
       \E date \in {civil(n * TicksPerDay + minute)} :
       \E next \in {civil((n + 1) * TicksPerDay + minute)} :
          /\ chart' = jd_pair(date, next)
          /\ locals' = [n |-> n, date |-> date, next |-> next]
          /\ pc' = "jd_done"

JdNext == DatetimeToJd

JdSpec == Init /\ [][JdNext]_vars

----------------------------------------------------------------------------
(* State machine: the same chart request made twice *)

\* a result of calculate_birth_chart with the clock reading it was made at
with_today(r, today) == [chart |-> r.chart, locals |-> [r.locals EXCEPT !.today = today]]

\* calculate_birth_chart from the positions on, datetime.now() reading today
chart_call_dasha(positions, all, today) ==
    with_today(calculate_birth_chart(positions, calculate_dasha(all, today)), today)

chart_call_positions(positions, birth_dt, today) ==
    chart_call_dasha(positions,
                     dasha_periods(birth_dt, positions.locals.sidereal["Moon"]), today)

\* calculate_birth_chart(birth_date, birth_time, birth_place) with the
\* collaborators' answers (timezone, positions) and the clock reading
chart_call(calc, birth_dt, tz_offset, answers, today) ==
    chart_call_positions(chart_positions(calc, birth_dt, tz_offset, answers),
                         birth_dt, today)

Calculators == {"astro", "accurate", "skyfield"}

\* the first request is made when the native is 30 years old
FirstClock(birth_dt) == birth_dt + 30 * TicksPerYear

\* the second request is made a day or ten years after the first
LaterClock(today) == {today + TicksPerDay, today + 10 * TicksPerYear}

FirstInvocation ==
    /\ pc = "idle"
    /\ \E calc \in Calculators, birth_dt \in BirthSamples, tz_offset \in TzOffsets,
          k \in 0..(NumSamples - 1) :
       \E ayanamsa \in {get_ayanamsa(calc, datetime_to_jd(birth_dt - tz_offset))} :
       \E r \in {chart_call(calc, birth_dt, tz_offset, ProviderAnswer(k, ayanamsa),
                            FirstClock(birth_dt))} :
          /\ chart' = r.chart
          /\ locals' = r.locals
          /\ pc' = "done"

\* the same inputs and the same collaborator answers, a later clock reading
SecondInvocation ==
    /\ pc = "done"
    /\ \E tz_offset \in {tz \in TzOffsets : datetime_to_jd(locals.birth_dt - tz) = locals.jd},
          today \in LaterClock(locals.today) :
       \E r \in {chart_call(chart.calc, locals.birth_dt, tz_offset,
                            [b \in Provided |-> locals.tropical[b]], today)} :
          /\ chart' = r.chart
          /\ locals' = [f \in DOMAIN r.locals \cup {"first"} |->
                          IF f = "first" THEN chart ELSE r.locals[f]]
          /\ pc' = "done_again"

RepeatNext ==
    \/ FirstInvocation
    \/ SecondInvocation

RepeatSpec == Init /\ [][RepeatNext]_vars

----------------------------------------------------------------------------
(* VedAstroCalculator: placements by name from the remote service *)

\* Tamil names are written in Latin transliteration
RASIS_TAMIL ==
    <<"Mesham", "Rishabam", "Mithunam", "Kadagam", "Simmam", "Kanni",
      "Thulam", "Viruchigam", "Dhanusu", "Magaram", "Kumbam", "Meenam">>

NAKSHATRAS_TAMIL ==
    <<"Ashvini", "Barani", "Kiruthigai", "Rohini", "Mirugaseerisham",
      "Thiruvathirai", "Punarpoosam", "Poosam", "Ayilyam", "Magam",
      "Pooram", "Uthiram", "Hastham", "Chithirai", "Swathi",
      "Visagam", "Anusham", "Kettai", "Moolam", "Pooradam",
      "Uthiradam", "Thiruvonam", "Avittam", "Sathayam",
      "Poorattathi", "Uthirattathi", "Revathi">>

\* list(RASI_MAP.keys())
RASI_KEYS ==
    <<"Aries", "Taurus", "Gemini", "Cancer", "Leo", "Virgo",
      "Libra", "Scorpio", "Sagittarius", "Capricorn", "Aquarius", "Pisces">>

\* list(NAKSHATRA_MAP.keys())
NAKSHATRA_KEYS ==
    <<"Ashwini", "Bharani", "Krittika", "Rohini", "Mrigashira", "Ardra",
      "Punarvasu", "Pushya", "Ashlesha", "Magha", "Purva Phalguni",
      "Uttara Phalguni", "Hasta", "Chitra", "Swati", "Vishakha", "Anuradha",
      "Jyeshtha", "Mula", "Purva Ashadha", "Uttara Ashadha", "Shravana",
      "Dhanishta", "Shatabhisha", "Purva Bhadrapada", "Uttara Bhadrapada",
      "Revati">>

\* 1-based position of name in list, 0 when it is not there
IndexIn(list, name) ==
    IF \E i \in DOMAIN list : list[i] = name
    THEN CHOOSE i \in DOMAIN list : list[i] = name
    ELSE 0

RASI_MAP == [n \in {RASI_KEYS[i] : i \in DOMAIN RASI_KEYS} |->
                RASIS_TAMIL[IndexIn(RASI_KEYS, n)]]

\* the value under "Mrigashira" is spelled otherwise than in NAKSHATRAS_TAMIL
NAKSHATRA_MAP == [n \in {NAKSHATRA_KEYS[i] : i \in DOMAIN NAKSHATRA_KEYS} |->
                     IF n = "Mrigashira" THEN "Mirugaseeridam"
                     ELSE NAKSHATRAS_TAMIL[IndexIn(NAKSHATRA_KEYS, n)]]

\* map.get(key, key)
MapGet(map, key) == IF key \in DOMAIN map THEN map[key] ELSE key

\* planets of calculate_birth_chart, in request order
VedAstroPlanets ==
    <<"Sun", "Moon", "Mars", "Mercury", "Jupiter", "Venus", "Saturn", "Rahu", "Ketu">>

\* the requests of one chart calculation
Requests ==
    ({VedAstroPlanets[i] : i \in DOMAIN VedAstroPlanets}
        \X {"PlanetZodiacSign", "PlanetConstellation"})
      \cup {<<"House1", "HouseZodiacSign">>}

\* what the service holds for an instant: the sidereal longitude of each body
ServiceSidereal(k) ==
    [b \in Bodies |->
        IF b = "Ketu"
        THEN opposite_node(SidSample((k + BodyShift("Rahu")) % NumSamples))
        ELSE SidSample((k + BodyShift(b)) % NumSamples)]

\* response.status_code == 200: the Payload's sign name
sign_answer(sid) == RASI_KEYS[longitude_to_rasi(sid) + 1]

\* response2.status_code == 200: the Payload's constellation name
constellation_answer(sid) == NAKSHATRA_KEYS[longitude_to_nakshatra(sid).nakshatra + 1]

\* one pass of "for planet in planets": None when requests.get raised
\* (connection error or timeout), otherwise the entry stored in the chart
planet_entry(sign_outcome, constellation_outcome, sign_en, nakshatra_en) ==
    IF sign_outcome = "exception" \/ constellation_outcome = "exception"
    THEN None
    ELSE <<[rasi         |-> MapGet(RASI_MAP, sign_en),
            rasi_EN      |-> sign_en,
            rasi_en      |-> IndexIn(RASI_KEYS, sign_en),
            nakshatra    |-> MapGet(NAKSHATRA_MAP, nakshatra_en),
            nakshatra_EN |-> nakshatra_en,
            nakshatra_en |-> IndexIn(NAKSHATRA_KEYS, nakshatra_en),
            pada         |-> 1]>>

planet_pass(planet, outcome, sid) ==
    planet_entry(outcome[<<planet, "PlanetZodiacSign">>],
                 outcome[<<planet, "PlanetConstellation">>],
                 IF outcome[<<planet, "PlanetZodiacSign">>] = "ok"
                    THEN sign_answer(sid[planet]) ELSE "",
                 IF outcome[<<planet, "PlanetConstellation">>] = "ok"
                    THEN constellation_answer(sid[planet]) ELSE "")

\* "Get Lagna": no key on a non-200 answer, an empty entry when the request raised
lagna_entry(lagna_outcome, lagna_en) ==
    CASE lagna_outcome = "ok" ->
             <<[rasi |-> MapGet(RASI_MAP, lagna_en), rasi_EN |-> lagna_en,
                rasi_en |-> IndexIn(RASI_KEYS, lagna_en)]>>
      [] lagna_outcome = "exception" -> <<[rasi |-> "", rasi_en |-> 0]>>
      [] OTHER -> None

\* calculate_dasha_local up to the lookup: balance_ratio = 0.5, so
\* first_dasha_remaining = first_dasha_total / 2 = remaining_num / NakshatraSpan
vedastro_dasha_periods(birth_dt, moon_nak_idx) ==
    first_dasha(birth_dt, NAKSHATRA_LORDS[moon_nak_idx + 1],
                DASHA_YEARS[NAKSHATRA_LORDS[moon_nak_idx + 1]] * (NakshatraSpan \div 2),
                birth_dt + timedelta_years(
                    DASHA_YEARS[NAKSHATRA_LORDS[moon_nak_idx + 1]] * (NakshatraSpan \div 2),
                    NakshatraSpan))

\* the dictionary calculate_dasha_local returns: d and b are the indices found
vedastro_dasha_result(all, d, b) ==
    [all |-> all,
     current_dasha |-> IF d = 0 THEN None
                       ELSE <<[lord |-> all[d].lord, start |-> all[d].start,
                               end |-> all[d].end]>>,
     current_bhukti |-> IF b = 0 THEN None ELSE <<all[d].bhukti[b]>>]

vedastro_find_current(all, today, d) ==
    vedastro_dasha_result(all, d,
                          IF d = 0 THEN 0 ELSE FirstContaining(all[d].bhukti, today))

calculate_dasha_local(all, today) ==
    vedastro_find_current(all, today, FirstContaining(all, today))

\* the Dasha section when the Moon's mansion name is not in NAKSHATRAS_TAMIL
empty_dasha == [all |-> <<>>, current_dasha |-> None, current_bhukti |-> None]

\* the name fields of the Moon's entry, "" when the pass raised
moon_field(entry, field) == IF entry = None THEN "" ELSE entry[1][field]

\* VedAstroCalculator.calculate_birth_chart without the Dasha section
vedastro_positions(outcome, sid) ==
    [calc |-> "vedastro",
     planets |-> [b \in {VedAstroPlanets[i] : i \in DOMAIN VedAstroPlanets} |->
                     planet_pass(b, outcome, sid)],
     lagna |-> lagna_entry(outcome[<<"House1", "HouseZodiacSign">>],
                           sign_answer(sid["Lagna"])),
     rasi |-> moon_field(planet_pass("Moon", outcome, sid), "rasi"),
     janma_nakshatra |-> moon_field(planet_pass("Moon", outcome, sid), "nakshatra")]

\* chart["dasha"] = ...
vedastro_chart(positions, dasha) ==
    [f \in DOMAIN positions \cup {"dasha"} |->
        IF f = "dasha" THEN dasha ELSE positions[f]]

\* outcomes of the requests: every one answered, or those of one set failing
\* by an exception (connection error, timeout) or by a non-200 status
FailingSets ==
    {{}, Requests, {<<"Moon", "PlanetZodiacSign">>},
     {<<"Moon", "PlanetConstellation">>}, {<<"House1", "HouseZodiacSign">>}}

BackendOutcomes ==
    {[r \in Requests |-> IF r \in failing THEN how ELSE "ok"] :
        failing \in FailingSets, how \in {"exception", "status"}}

\* wall-clock readings for calculate_dasha_local
VedAstroTodaySamples(all, birth_dt) ==
    {birth_dt, strptime(all[2].start), all[9].end_dt + TicksPerDay}

VedAstroCalculateBirthChart ==
    /\ pc = "idle"
    /\ \E birth_dt \in BirthSamples, k \in 0..(NumSamples - 1), outcome \in BackendOutcomes :
       \E positions \in {vedastro_positions(outcome, ServiceSidereal(k))} :
          /\ locals' = [birth_dt |-> birth_dt, outcome |-> outcome,
                        sidereal |-> ServiceSidereal(k)]
          /\ pc' = "vedastro_done"
          /\ IF IndexIn(NAKSHATRAS_TAMIL, positions.janma_nakshatra) # 0
             THEN \E all \in {vedastro_dasha_periods(birth_dt,
                                 IndexIn(NAKSHATRAS_TAMIL, positions.janma_nakshatra) - 1)} :
                  \E today \in VedAstroTodaySamples(all, birth_dt) :
                     chart' = vedastro_chart(positions, calculate_dasha_local(all, today))
             ELSE chart' = vedastro_chart(positions, empty_dasha)

\* NAKSHATRAS_TAMIL.index(name) if name in NAKSHATRAS_TAMIL else 0
index_or_zero(list, name) == IF IndexIn(list, name) # 0 THEN IndexIn(list, name) - 1 ELSE 0

\* VedAstroCalculator.calculate_compatibility from the two charts on
vedastro_compatibility(chart1, chart2) ==
    calculate_compatibility(index_or_zero(NAKSHATRAS_TAMIL, chart1.janma_nakshatra),
                            index_or_zero(RASIS_TAMIL, chart1.rasi),
                            index_or_zero(NAKSHATRAS_TAMIL, chart2.janma_nakshatra),
                            index_or_zero(RASIS_TAMIL, chart2.rasi))

\* Moon samples of the two persons: the start of each mansion, two mansions
Person1Samples == {4 * n : n \in 0..26}
Person2Samples == {0, 52}

VedAstroCalculateCompatibility ==
    /\ pc = "idle"
    /\ \E k1 \in Person1Samples, k2 \in Person2Samples,
          outcome1 \in BackendOutcomes, outcome2 \in BackendOutcomes :
          /\ chart' = vedastro_compatibility(
                          vedastro_positions(outcome1, ServiceSidereal(k1)),
                          vedastro_positions(outcome2, ServiceSidereal(k2)))
          /\ locals' = [outcome1 |-> outcome1, outcome2 |-> outcome2,
                        sidereal1 |-> ServiceSidereal(k1),
                        sidereal2 |-> ServiceSidereal(k2)]
          /\ pc' = "vedastro_compatibility_done"

VedAstroNext ==
    \/ VedAstroCalculateBirthChart
    \/ VedAstroCalculateCompatibility

VedAstroSpec == Init /\ [][VedAstroNext]_vars

\* the chart request against any of the four calculators
VariantsNext ==
    \/ Next
    \/ VedAstroCalculateBirthChart

VariantsSpec == Init /\ [][VariantsNext]_vars

----------------------------------------------------------------------------
(* Location resolution and the civil-to-UTC conversion *)

\* coordinates in units of 1/10000 degree
DEFAULT_LOCATION == [lat |-> 130827, lon |-> 802707, tz_name |-> <<"Asia/Kolkata">>]

\* places the geocoder knows, and the zone the timezone finder holds for them
\* (None where it holds no zone for the point)
GeocoderPlaces ==
    {[lat |-> 130827, lon |-> 802707, zone |-> <<"Asia/Kolkata">>],
     [lat |-> 356762, lon |-> 1396503, zone |-> <<"Asia/Tokyo">>],
     [lat |-> 13521, lon |-> 1038198, zone |-> <<"Asia/Singapore">>],
     [lat |-> 0, lon |-> -300000, zone |-> None]}

\* pytz's zones met here, with their UTC offsets in minutes
ZoneOffsets ==
    [z \in {"Asia/Kolkata", "Asia/Tokyo", "Asia/Singapore"} |->
        CASE z = "Asia/Kolkata" -> 330
          [] z = "Asia/Tokyo" -> 540
          [] z = "Asia/Singapore" -> 480]

\* outcomes of self.geolocator.geocode(place_name): it raises, it returns None,
\* or it returns a location
GeocodeOutcomes ==
    {[kind |-> "exception"], [kind |-> "not_found"]}
      \cup {[kind |-> "found", lat |-> p.lat, lon |-> p.lon, zone |-> p.zone] :
               p \in GeocoderPlaces}

\* outcomes of self.tf.timezone_at for a found location: the zone it holds
\* (None when it holds none), or an exception
TimezoneOutcomes(location) == {[kind |-> "returned", tz_name |-> location.zone],
                               [kind |-> "exception"]}

\* get_location_coords: the found location with whatever timezone_at returned;
\* the default when nothing was found or anything inside the try raised
get_location_coords(location, timezone) ==
    IF location.kind = "found" /\ timezone.kind = "returned"
    THEN [lat |-> location.lat, lon |-> location.lon, tz_name |-> timezone.tz_name]
    ELSE DEFAULT_LOCATION

\* tz = pytz.timezone(tz_name); local_dt = tz.localize(birth_dt);
\* utc_dt = local_dt.astimezone(pytz.UTC)
convert_to_utc(birth_dt, tz_name) ==
    IF tz_name = None \/ tz_name[1] \notin DOMAIN ZoneOffsets
    THEN [status |-> "error", error |-> "UnknownTimeZoneError"]
    ELSE [status |-> "ok", utc_dt |-> birth_dt - ZoneOffsets[tz_name[1]]]

\* the head of calculate_birth_chart: location, then the conversion
localize_birth(birth_dt, coords) ==
    [coords |-> coords, conversion |-> convert_to_utc(birth_dt, coords.tz_name)]

LocalBirthSamples == {d * TicksPerDay + h : d \in {-3518, 0, 8825}, h \in HourSamples}

LocalizeBirth ==
    /\ pc = "idle"
    /\ \E birth_dt \in LocalBirthSamples, location \in GeocodeOutcomes :
       \E timezone \in (IF location.kind = "found" THEN TimezoneOutcomes(location)
                        ELSE {[kind |-> "not_called"]}) :
          /\ chart' = localize_birth(birth_dt, get_location_coords(location, timezone))
          /\ locals' = [birth_dt |-> birth_dt, location |-> location, timezone |-> timezone]
          /\ pc' = "localized"

LocationNext == LocalizeBirth

LocationSpec == Init /\ [][LocationNext]_vars

----------------------------------------------------------------------------
(* The HTTP handlers of app.py *)

\* a JSON field is None when the key is absent, else <<its string>>
DateInputs == {None, <<"">>, <<"15/05/1990">>, <<"1990-05-15">>, <<"2000-01-01">>}
TimeInputs == {None, <<"">>, <<"25:61">>, <<"10:30">>, <<"23:59">>}
PlaceInputs == {None, <<"Chennai">>}

\* the %Y-%m-%d part of datetime.strptime: the day number, None on ValueError
parse_date(s) == CASE s = "1990-05-15" -> <<-3518>>
                   [] s = "2000-01-01" -> <<0>>
                   [] OTHER -> None

\* the %H:%M part of datetime.strptime: the minute of the day, None on ValueError
parse_time(s) == CASE s = "10:30" -> <<630>>
                   [] s = "12:00" -> <<720>>
                   [] s = "23:59" -> <<1439>>
                   [] OTHER -> None

\* birth_dt = datetime.strptime(f"{birth_date} {birth_time}", "%Y-%m-%d %H:%M")
parse_birth(birth_date, birth_time) ==
    IF parse_date(birth_date) = None \/ parse_time(birth_time) = None
    THEN None
    ELSE <<parse_date(birth_date)[1] * TicksPerDay + parse_time(birth_time)[1]>>

\* data.get(key, default)
get_default(field, default) == IF field = None THEN default ELSE field[1]

\* answers of the ephemeris the handlers' calculator reads
EphemerisSamples == {0, 100}

\* calculator.calculate_birth_chart for a parsed birth instant, the place
\* resolved to the default location's zone (UTC+5:30)
handler_chart(birth_dt, k) ==
    chart_call("skyfield", birth_dt, 330,
               ProviderAnswer(k, get_ayanamsa("skyfield", datetime_to_jd(birth_dt - 330))),
               FirstClock(birth_dt)).chart

\* get_birth_chart: 400 when a field is missing or empty, 500 when
\* calculate_birth_chart raises, else the chart
get_birth_chart(data, k) ==
    IF \E f \in {"birth_date", "birth_time", "birth_place"} :
          data[f] = None \/ data[f] = <<"">>
    THEN [status |-> 400]
    ELSE IF parse_birth(data.birth_date[1], data.birth_time[1]) = None
    THEN [status |-> 500]
    ELSE [status |-> 200,
          chart |-> handler_chart(parse_birth(data.birth_date[1], data.birth_time[1])[1], k)]

\* the person dictionary check_compatibility builds: None when
\* data['personN']['birth_date'] raises KeyError
person_data(person) ==
    IF person.birth_date = None THEN None
    ELSE <<[date |-> person.birth_date[1],
            time |-> get_default(person.birth_time, "12:00"),
            place |-> get_default(person.birth_place, "Chennai")]>>

\* SkyfieldVedicCalculator.calculate_compatibility from the two charts on
chart_compatibility(chart1, chart2) ==
    calculate_compatibility(chart1.janma_nakshatra, chart1.rasi,
                            chart2.janma_nakshatra, chart2.rasi)

\* check_compatibility with both person dictionaries built
compatibility_response(person1, person2, k1, k2, ai_agent) ==
    IF \/ parse_birth(person1.date, person1.time) = None
       \/ parse_birth(person2.date, person2.time) = None
       \/ ai_agent # "answers"
    THEN [status |-> 500]
    ELSE [status |-> 200,
          compatibility |->
              chart_compatibility(
                  handler_chart(parse_birth(person1.date, person1.time)[1], k1),
                  handler_chart(parse_birth(person2.date, person2.time)[1], k2))]

\* check_compatibility: 500 on any exception, else the compatibility
check_compatibility(data, k1, k2, ai_agent) ==
    IF person_data(data.person1) = None \/ person_data(data.person2) = None
    THEN [status |-> 500]
    ELSE compatibility_response(person_data(data.person1)[1],
                                person_data(data.person2)[1], k1, k2, ai_agent)

\* ai_agent: None (no provider configured), or an agent whose call answers or raises
AiAgents == {"none", "answers", "raises"}

\* f"{birth_date} {birth_time}": an absent field is formatted as "None"
format_field(field) == IF field = None THEN "None" ELSE field[1]

\* the order in which the chart lists the planets
KattamOrder == Planets \o <<"Rahu", "Ketu">>

\* get_jathaga_kattam: per sign, the bodies placed there in chart order, the
\* Lagna mark inserted in front
get_jathaga_kattam(c) ==
    [r \in 0..11 |->
        (IF c.lagna.rasi = r THEN <<"Lagna">> ELSE <<>>)
        \o SelectSeq(KattamOrder, LAMBDA b : c.planets[b].rasi = r)]

\* get_current_transits: the sign and mansion of each planet of a chart cast
\* for the present instant at the default place
get_current_transits(now, k) ==
    LET c == chart_positions("skyfield", now, 330,
                 ProviderAnswer(k, get_ayanamsa("skyfield", datetime_to_jd(now - 330)))).chart
    IN [b \in DOMAIN c.planets |->
           [rasi |-> c.planets[b].rasi, nakshatra |-> c.planets[b].nakshatra]]

\* the text the prediction handler puts under the prediction key
prediction_text(ai_agent) ==
    CASE ai_agent = "none" -> ""
      [] ai_agent = "answers" -> "prediction"
      [] ai_agent = "raises" -> "unavailable"

\* get_prediction with the birth instant parsed
prediction_response(c, kattam, transits, ai_agent) ==
    [status |-> 200,
     success |-> TRUE,
     chart |-> [f \in DOMAIN c \cup {"transits"} |->
                   IF f = "transits" THEN transits ELSE c[f]],
     kattam |-> kattam,
     prediction |-> prediction_text(ai_agent)]

\* get_prediction: 500 when calculate_birth_chart raises, else the chart, the
\* kattam and the prediction text
get_prediction(data, k, kt, ai_agent) ==
    IF parse_birth(format_field(data.birth_date), format_field(data.birth_time)) = None
    THEN [status |-> 500]
    ELSE LET birth_dt == parse_birth(format_field(data.birth_date),
                                     format_field(data.birth_time))[1]
             c == handler_chart(birth_dt, k)
         IN prediction_response(c, get_jathaga_kattam(c),
                                get_current_transits(FirstClock(birth_dt), kt), ai_agent)

GetBirthChart ==
    /\ pc = "idle"
    /\ \E birth_date \in DateInputs, birth_time \in TimeInputs, birth_place \in PlaceInputs,
          k \in EphemerisSamples :
       \E data \in {[birth_date |-> birth_date, birth_time |-> birth_time,
                     birth_place |-> birth_place]} :
          /\ chart' = get_birth_chart(data, k)
          /\ locals' = [endpoint |-> "birth-chart", data |-> data]
          /\ pc' = "responded"

\* the second person's fields are well-formed or its time is absent
CheckCompatibility ==
    /\ pc = "idle"
    /\ \E date1 \in DateInputs, time1 \in TimeInputs,
          date2 \in {<<"2000-01-01">>}, time2 \in {None, <<"10:30">>},
          k1 \in EphemerisSamples, k2 \in EphemerisSamples, ai_agent \in AiAgents :
       \E data \in {[person1 |-> [birth_date |-> date1, birth_time |-> time1,
                                   birth_place |-> None],
                     person2 |-> [birth_date |-> date2, birth_time |-> time2,
                                   birth_place |-> <<"Chennai">>]]} :
          /\ chart' = check_compatibility(data, k1, k2, ai_agent)
          /\ locals' = [endpoint |-> "compatibility", data |-> data, ai_agent |-> ai_agent,
                        person1 |-> person_data(data.person1),
                        person2 |-> person_data(data.person2)]
          /\ pc' = "responded"

GetPrediction ==
    /\ pc = "idle"
    /\ \E birth_date \in DateInputs, birth_time \in TimeInputs,
          k \in EphemerisSamples, kt \in EphemerisSamples, ai_agent \in AiAgents :
       \E data \in {[birth_date |-> birth_date, birth_time |-> birth_time,
                     birth_place |-> <<"Chennai">>]} :
          /\ chart' = get_prediction(data, k, kt, ai_agent)
          /\ locals' = [endpoint |-> "prediction", data |-> data, ai_agent |-> ai_agent]
          /\ pc' = "responded"

AppNext ==
    \/ GetBirthChart
    \/ CheckCompatibility
    \/ GetPrediction

AppSpec == Init /\ [][AppNext]_vars

----------------------------------------------------------------------------
(* The four copies of calculate_compatibility, each with its own constants *)

\* the literals of VedicAstroCalculator.calculate_compatibility
astro_tables ==
    [dina_bad |-> {2, 4, 6, 8, 9, 11, 13, 15, 18, 20, 22, 24, 26},
     gana |-> <<[gana |-> "deva", naks |-> {0, 4, 6, 7, 12, 16, 21, 26}],
                [gana |-> "manitha", naks |-> {1, 3, 5, 10, 11, 19, 20, 24, 25}],
                [gana |-> "asura", naks |-> {2, 8, 9, 13, 14, 15, 17, 18, 22, 23}]>>,
     rasi_good |-> {1, 2, 3, 4, 5, 7, 9, 11},
     rajju |-> <<{0, 5, 6, 11, 12, 17, 18, 23, 24},
                 {1, 4, 7, 10, 13, 16, 19, 22, 25},
                 {2, 3, 8, 9, 14, 15, 20, 21, 26}>>,
     vedha_bad |-> {1, 3, 5, 7},
     vasya_good |-> {2, 5, 6, 8, 9},
     mahendra_good |-> {4, 7, 10, 13, 16, 19, 22, 25},
     stree_min |-> 13,
     nadi |-> <<{0, 3, 6, 9, 12, 15, 18, 21, 24},
                {1, 4, 7, 10, 13, 16, 19, 22, 25},
                {2, 5, 8, 11, 14, 17, 20, 23, 26}>>,
     bands |-> <<8, 6, 4>>]

\* the literals of AccurateVedicCalculator.calculate_compatibility
accurate_tables ==
    [dina_bad |-> {2, 4, 6, 8, 9, 11, 13, 15, 18, 20, 22, 24, 26},
     gana |-> <<[gana |-> "deva", naks |-> {0, 4, 6, 7, 12, 16, 21, 26}],
                [gana |-> "manitha", naks |-> {1, 3, 5, 10, 11, 19, 20, 24, 25}],
                [gana |-> "asura", naks |-> {2, 8, 9, 13, 14, 15, 17, 18, 22, 23}]>>,
     rasi_good |-> {1, 2, 3, 4, 5, 7, 9, 11},
     rajju |-> <<{0, 5, 6, 11, 12, 17, 18, 23, 24},
                 {1, 4, 7, 10, 13, 16, 19, 22, 25},
                 {2, 3, 8, 9, 14, 15, 20, 21, 26}>>,
     vedha_bad |-> {1, 3, 5, 7},
     vasya_good |-> {2, 5, 6, 8, 9},
     mahendra_good |-> {4, 7, 10, 13, 16, 19, 22, 25},
     stree_min |-> 13,
     nadi |-> <<{0, 3, 6, 9, 12, 15, 18, 21, 24},
                {1, 4, 7, 10, 13, 16, 19, 22, 25},
                {2, 5, 8, 11, 14, 17, 20, 23, 26}>>,
     bands |-> <<8, 6, 4>>]

\* the literals of SkyfieldVedicCalculator.calculate_compatibility
skyfield_tables ==
    [dina_bad |-> {2, 4, 6, 8, 9, 11, 13, 15, 18, 20, 22, 24, 26},
     gana |-> <<[gana |-> "deva", naks |-> {0, 4, 6, 7, 12, 16, 21, 26}],
                [gana |-> "manitha", naks |-> {1, 3, 5, 10, 11, 19, 20, 24, 25}],
                [gana |-> "asura", naks |-> {2, 8, 9, 13, 14, 15, 17, 18, 22, 23}]>>,
     rasi_good |-> {1, 2, 3, 4, 5, 7, 9, 11},
     rajju |-> <<{0, 5, 6, 11, 12, 17, 18, 23, 24},
                 {1, 4, 7, 10, 13, 16, 19, 22, 25},
                 {2, 3, 8, 9, 14, 15, 20, 21, 26}>>,
     vedha_bad |-> {1, 3, 5, 7},
     vasya_good |-> {2, 5, 6, 8, 9},
     mahendra_good |-> {4, 7, 10, 13, 16, 19, 22, 25},
     stree_min |-> 13,
     nadi |-> <<{0, 3, 6, 9, 12, 15, 18, 21, 24},
                {1, 4, 7, 10, 13, 16, 19, 22, 25},
                {2, 5, 8, 11, 14, 17, 20, 23, 26}>>,
     bands |-> <<8, 6, 4>>]

\* the fourth copy with rule 9 passing from a count of 14 on
vedastro_tables_late ==
    [dina_bad |-> {2, 4, 6, 8, 9, 11, 13, 15, 18, 20, 22, 24, 26},
     gana |-> <<[gana |-> "deva", naks |-> {0, 4, 6, 7, 12, 16, 21, 26}],
                [gana |-> "manitha", naks |-> {1, 3, 5, 10, 11, 19, 20, 24, 25}],
                [gana |-> "asura", naks |-> {2, 8, 9, 13, 14, 15, 17, 18, 22, 23}]>>,
     rasi_good |-> {1, 2, 3, 4, 5, 7, 9, 11},
     rajju |-> <<{0, 5, 6, 11, 12, 17, 18, 23, 24},
                 {1, 4, 7, 10, 13, 16, 19, 22, 25},
                 {2, 3, 8, 9, 14, 15, 20, 21, 26}>>,
     vedha_bad |-> {1, 3, 5, 7},
     vasya_good |-> {2, 5, 6, 8, 9},
     mahendra_good |-> {4, 7, 10, 13, 16, 19, 22, 25},
     stree_min |-> 14,
     nadi |-> <<{0, 3, 6, 9, 12, 15, 18, 21, 24},
                {1, 4, 7, 10, 13, 16, 19, 22, 25},
                {2, 5, 8, 11, 14, 17, 20, 23, 26}>>,
     bands |-> <<8, 6, 4>>]

\* the literals of VedAstroCalculator.calculate_compatibility
vedastro_tables ==
    [dina_bad |-> {2, 4, 6, 8, 9, 11, 13, 15, 18, 20, 22, 24, 26},
     gana |-> <<[gana |-> "deva", naks |-> {0, 4, 6, 7, 12, 16, 21, 26}],
                [gana |-> "manitha", naks |-> {1, 3, 5, 10, 11, 19, 20, 24, 25}],
                [gana |-> "asura", naks |-> {2, 8, 9, 13, 14, 15, 17, 18, 22, 23}]>>,
     rasi_good |-> {1, 2, 3, 4, 5, 7, 9, 11},
     rajju |-> <<{0, 5, 6, 11, 12, 17, 18, 23, 24},
                 {1, 4, 7, 10, 13, 16, 19, 22, 25},
                 {2, 3, 8, 9, 14, 15, 20, 21, 26}>>,
     vedha_bad |-> {1, 3, 5, 7},
     vasya_good |-> {2, 5, 6, 8, 9},
     mahendra_good |-> {4, 7, 10, 13, 16, 19, 22, 25},
     stree_min |-> 13,
     nadi |-> <<{0, 3, 6, 9, 12, 15, 18, 21, 24},
                {1, 4, 7, 10, 13, 16, 19, 22, 25},
                {2, 5, 8, 11, 14, 17, 20, 23, 26}>>,
     bands |-> <<8, 6, 4>>]

AllCalculators == {"astro", "accurate", "skyfield", "vedastro"}

RuleTables(calc) ==
    CASE calc = "astro" -> astro_tables
      [] calc = "accurate" -> accurate_tables
      [] calc = "skyfield" -> skyfield_tables
      [] calc = "vedastro" -> vedastro_tables

\* the gana loop over a copy's own table
GanaIn(groups, idx) ==
    LET hits == {i \in DOMAIN groups : idx \in groups[i].naks}
    IN IF hits = {} THEN None
       ELSE <<groups[CHOOSE i \in hits : \A j \in hits : j <= i].gana>>

\* the ten rules evaluated with the constants t of one copy
copy_poruthams(t, nak1_idx, rasi1_idx, nak2_idx, rasi2_idx) ==
    LET dina_count == ((nak2_idx - nak1_idx) % 27) + 1
        rasi_diff == (rasi2_idx - rasi1_idx) % 12
        gana1 == GanaIn(t.gana, nak1_idx)
        gana2 == GanaIn(t.gana, nak2_idx)
        mahendra_count == ((nak2_idx - nak1_idx) % 27) + 1
        stree_count == ((nak2_idx - nak1_idx) % 27) + 1
    IN [rule \in {RuleNames[i] : i \in DOMAIN RuleNames} |->
          porutham(
            CASE rule = "dina" -> dina_count \notin t.dina_bad
              [] rule = "gana" ->
                   (gana1 = gana2) \/ (gana1 = <<"deva">>) \/ (gana2 = <<"deva">>)
              [] rule = "rasi" -> rasi_diff \in t.rasi_good
              [] rule = "yoni" -> Abs(nak1_idx - nak2_idx) % 2 = 0
              [] rule = "rajju" ->
                   GroupOf(t.rajju, nak1_idx) # GroupOf(t.rajju, nak2_idx)
              [] rule = "vedha" -> Abs(nak1_idx - nak2_idx) \notin t.vedha_bad
              [] rule = "vasya" -> rasi_diff \in t.vasya_good
              [] rule = "mahendra" -> mahendra_count \in t.mahendra_good
              [] rule = "stree_deergha" -> stree_count >= t.stree_min
              [] rule = "nadi" ->
                   GroupOf(t.nadi, nak1_idx) # GroupOf(t.nadi, nak2_idx))]

\* the verdict of one copy from its own thresholds
copy_recommendation(t, total) ==
    IF total >= t.bands[1] THEN "excellent"
    ELSE IF total >= t.bands[2] THEN "good"
    ELSE IF total >= t.bands[3] THEN "average"
    ELSE "low"

\* what a copy returns: the names as read, the rules, the total, the verdict
copy_result(names, p, t) ==
    [person1 |-> [nakshatra |-> names.nak1, rasi |-> names.rasi1],
     person2 |-> [nakshatra |-> names.nak2, rasi |-> names.rasi2],
     poruthams |-> p,
     total |-> SumValues(p, DOMAIN p),
     out_of |-> 10,
     recommendation |-> copy_recommendation(t, SumValues(p, DOMAIN p))]

\* NAKSHATRAS_TAMIL.index(name) raises ValueError for a name not in the list;
\* the first two copies call it bare, the last two fall back to 0
LookupRaises(calc, list, name) ==
    calc \in {"astro", "accurate"} /\ IndexIn(list, name) = 0

\* calculate_compatibility of one copy from the names of the two charts on
copy_compatibility(calc, names) ==
    IF \/ LookupRaises(calc, NAKSHATRAS_TAMIL, names.nak1)
       \/ LookupRaises(calc, NAKSHATRAS_TAMIL, names.nak2)
       \/ LookupRaises(calc, RASIS_TAMIL, names.rasi1)
       \/ LookupRaises(calc, RASIS_TAMIL, names.rasi2)
    THEN [raised |-> "ValueError"]
    ELSE copy_result(names,
                     copy_poruthams(RuleTables(calc),
                                    index_or_zero(NAKSHATRAS_TAMIL, names.nak1),
                                    index_or_zero(RASIS_TAMIL, names.rasi1),
                                    index_or_zero(NAKSHATRAS_TAMIL, names.nak2),
                                    index_or_zero(RASIS_TAMIL, names.rasi2)),
                     RuleTables(calc))

\* signs of the first chart: the first, a middle and the last of the table
FirstSigns == {1, 6, 12}

\* the four calculators asked about the same two charts
CompareCopies ==
    /\ pc = "idle"
    /\ \E n1 \in 1..27, r1 \in FirstSigns, n2 \in 1..27, r2 \in 1..12 :
       \E names \in {[nak1 |-> NAKSHATRAS_TAMIL[n1], rasi1 |-> RASIS_TAMIL[r1],
                      nak2 |-> NAKSHATRAS_TAMIL[n2], rasi2 |-> RASIS_TAMIL[r2]]} :
          /\ chart' = [calc \in AllCalculators |-> copy_compatibility(calc, names)]
          /\ locals' = names
          /\ pc' = "copies_done"

CopiesNext == CompareCopies

CopiesSpec == Init /\ [][CopiesNext]_vars

----------------------------------------------------------------------------
(* State machine: the sign and mansion of one longitude given as a double *)

MinutesPerCircle == 360 * 60
UnitsPerArcMinute == LonUnitsPerDegree \div 60

\* int(L / span) % 27 and int((L % span) / (span / 4)) + 1 in binary64
\* arithmetic for L = m / 60, at the m where the result is not the exact
\* quotient: span = 360 / 27 is stored as 13.333333333333334, above 40/3, so
\* L % span falls short of the exact remainder when L is on a pada boundary,
\* and L / span may round up to the next whole number
DoubleResults ==
    (1200 :> [nakshatra |-> 1, pada |-> 2]) @@ (1400 :> [nakshatra |-> 1, pada |-> 3]) @@ (1800 :> [nakshatra |-> 2, pada |-> 1]) @@
    (2200 :> [nakshatra |-> 2, pada |-> 3]) @@ (2400 :> [nakshatra |-> 3, pada |-> 4]) @@ (2800 :> [nakshatra |-> 3, pada |-> 2]) @@
    (3000 :> [nakshatra |-> 3, pada |-> 3]) @@ (3400 :> [nakshatra |-> 4, pada |-> 1]) @@ (3600 :> [nakshatra |-> 4, pada |-> 2]) @@
    (4200 :> [nakshatra |-> 5, pada |-> 1]) @@ (4400 :> [nakshatra |-> 5, pada |-> 2]) @@ (4800 :> [nakshatra |-> 6, pada |-> 4]) @@
    (5000 :> [nakshatra |-> 6, pada |-> 1]) @@ (5400 :> [nakshatra |-> 6, pada |-> 3]) @@ (5600 :> [nakshatra |-> 6, pada |-> 4]) @@
    (6000 :> [nakshatra |-> 7, pada |-> 2]) @@ (6200 :> [nakshatra |-> 7, pada |-> 3]) @@ (6600 :> [nakshatra |-> 8, pada |-> 1]) @@
    (6800 :> [nakshatra |-> 8, pada |-> 2]) @@ (7200 :> [nakshatra |-> 9, pada |-> 4]) @@ (7400 :> [nakshatra |-> 9, pada |-> 1]) @@
    (7600 :> [nakshatra |-> 9, pada |-> 2]) @@ (7800 :> [nakshatra |-> 9, pada |-> 3]) @@ (8200 :> [nakshatra |-> 10, pada |-> 1]) @@
    (8400 :> [nakshatra |-> 10, pada |-> 2]) @@ (8800 :> [nakshatra |-> 10, pada |-> 4]) @@ (9000 :> [nakshatra |-> 11, pada |-> 1]) @@
    (9400 :> [nakshatra |-> 11, pada |-> 3]) @@ (9600 :> [nakshatra |-> 12, pada |-> 4]) @@ (10000 :> [nakshatra |-> 12, pada |-> 2]) @@
    (10200 :> [nakshatra |-> 12, pada |-> 3]) @@ (10600 :> [nakshatra |-> 13, pada |-> 1]) @@ (10800 :> [nakshatra |-> 13, pada |-> 2]) @@
    (11200 :> [nakshatra |-> 13, pada |-> 4]) @@ (11400 :> [nakshatra |-> 14, pada |-> 1]) @@ (11800 :> [nakshatra |-> 14, pada |-> 3]) @@
    (12000 :> [nakshatra |-> 15, pada |-> 4]) @@ (12400 :> [nakshatra |-> 15, pada |-> 2]) @@ (12600 :> [nakshatra |-> 15, pada |-> 3]) @@
    (13000 :> [nakshatra |-> 16, pada |-> 1]) @@ (13200 :> [nakshatra |-> 16, pada |-> 2]) @@ (13600 :> [nakshatra |-> 17, pada |-> 4]) @@
    (13800 :> [nakshatra |-> 17, pada |-> 1]) @@ (14000 :> [nakshatra |-> 17, pada |-> 2]) @@ (14200 :> [nakshatra |-> 17, pada |-> 3]) @@
    (14400 :> [nakshatra |-> 18, pada |-> 4]) @@ (14600 :> [nakshatra |-> 18, pada |-> 1]) @@ (14800 :> [nakshatra |-> 18, pada |-> 2]) @@
    (15000 :> [nakshatra |-> 18, pada |-> 3]) @@ (15200 :> [nakshatra |-> 19, pada |-> 4]) @@ (15600 :> [nakshatra |-> 19, pada |-> 2]) @@
    (15800 :> [nakshatra |-> 19, pada |-> 3]) @@ (16200 :> [nakshatra |-> 20, pada |-> 1]) @@ (16400 :> [nakshatra |-> 20, pada |-> 2]) @@
    (16800 :> [nakshatra |-> 21, pada |-> 4]) @@ (17000 :> [nakshatra |-> 21, pada |-> 1]) @@ (17400 :> [nakshatra |-> 21, pada |-> 3]) @@
    (17600 :> [nakshatra |-> 21, pada |-> 4]) @@ (18000 :> [nakshatra |-> 22, pada |-> 2]) @@ (18200 :> [nakshatra |-> 22, pada |-> 3]) @@
    (18600 :> [nakshatra |-> 23, pada |-> 1]) @@ (18800 :> [nakshatra |-> 23, pada |-> 2]) @@ (19200 :> [nakshatra |-> 24, pada |-> 4]) @@
    (19400 :> [nakshatra |-> 24, pada |-> 1]) @@ (19800 :> [nakshatra |-> 24, pada |-> 3]) @@ (20000 :> [nakshatra |-> 24, pada |-> 4]) @@
    (20400 :> [nakshatra |-> 25, pada |-> 2]) @@ (20600 :> [nakshatra |-> 25, pada |-> 3]) @@ (21000 :> [nakshatra |-> 26, pada |-> 1]) @@
    (21200 :> [nakshatra |-> 26, pada |-> 2])

\* longitude_to_nakshatra(m / 60) as the interpreter evaluates it
longitude_to_nakshatra_double(m) ==
    IF m \in DOMAIN DoubleResults THEN DoubleResults[m]
    ELSE longitude_to_nakshatra(m * UnitsPerArcMinute)

\* longitude_to_rasi(m / 60): int(L / 30) % 12 is the exact quotient for every m
longitude_to_rasi_double(m) == longitude_to_rasi(m * UnitsPerArcMinute)

\* the placement a chart stores for a body at m arc-minutes
MapLongitude ==
    /\ pc = "idle"
    /\ \E m \in 0..(MinutesPerCircle - 1) :
          /\ chart' = [rasi |-> longitude_to_rasi_double(m),
                       nakshatra |-> longitude_to_nakshatra_double(m).nakshatra,
                       pada |-> longitude_to_nakshatra_double(m).pada]
          /\ locals' = [minutes |-> m]
          /\ pc' = "mapped"

MapperNext == MapLongitude

MapperSpec == Init /\ [][MapperNext]_vars

----------------------------------------------------------------------------
(* State machine: the Dasha sequence of a Moon longitude given as a double *)

\* m / 60 is a whole number of quarter degrees, which binary64 holds exactly
ExactDouble(m) == m % 15 = 0

QuarterDegrees == {15 * j : j \in 0..(4 * 360 - 1)}

\* moon_longitude % nakshatra_span comes out one rounding step below
\* nakshatra_span where the exact remainder is 0 and the table has pada 4
RemainderWrapped(m) ==
    /\ (m * UnitsPerArcMinute) % NakshatraSpan = 0
    /\ longitude_to_nakshatra_double(m).pada = 4

\* calculate_dasha up to the lookup for moon_longitude = m / 60: the index is
\* the expression of longitude_to_nakshatra; where the remainder wrapped,
\* 1 - position_in_nak is below 1e-15 and the timedelta of the first period
\* rounds to zero microseconds
dasha_periods_double(birth_dt, m) ==
    LET nakshatra_index == longitude_to_nakshatra_double(m).nakshatra
        position_num == IF RemainderWrapped(m) THEN NakshatraSpan
                        ELSE (m * UnitsPerArcMinute) % NakshatraSpan
        start_lord == NAKSHATRA_LORDS[nakshatra_index + 1]
        first_dasha_total == DASHA_YEARS[start_lord]
        remaining_num == first_dasha_total * (NakshatraSpan - position_num)
    IN first_dasha(birth_dt, start_lord, remaining_num,
                   birth_dt + timedelta_years(remaining_num, NakshatraSpan))

CalculateDashaDouble ==
    /\ pc = "idle"
    /\ \E birth_dt \in BirthSamples, m \in QuarterDegrees :
       \E all \in {dasha_periods_double(birth_dt, m)} :
          /\ chart' = [janma_nakshatra |-> longitude_to_nakshatra_double(m).nakshatra,
                       dasha |-> calculate_dasha(all, FirstClock(birth_dt))]
          /\ locals' = [birth_dt |-> birth_dt, minutes |-> m,
                        today |-> FirstClock(birth_dt)]
          /\ pc' = "double_done"

DoubleMoonNext == CalculateDashaDouble

DoubleMoonSpec == Init /\ [][DoubleMoonNext]_vars

----------------------------------------------------------------------------
(* State machine: current-period resolution *)

\* number of consecutive Moon positions explored from the start of the zodiac
ArcLength == 300

\* birth instants on whole two-hour marks: 1990-05-15 10:00, 2000-01-01 00:00,
\* 2024-02-29 22:00.  The code parses births to the minute and keeps periods to
\* the microsecond, so every Bhukti share (lord's years / 120) of a span of
\* whole minutes is itself exact; a tick being a minute, spans of whole 120
\* ticks keep that relation.
GridBirthSamples == {(-3518) * TicksPerDay + 600, 0, 8825 * TicksPerDay + 1320}

\* wall-clock readings at and next to emitted Dasha and Bhukti boundaries
LookupTodaySamples(all) ==
    {strptime(all[i].end) + o : i \in {1, 2, 9}, o \in {-1, 0, 1}}
      \cup {strptime(all[i].bhukti[j].end) + o :
               i \in {1, 2}, j \in {1, 8, 9}, o \in {-1, 0, 1}}

\* calculate_dasha of the three local calculators
ResolveCurrentPeriod ==
    /\ pc = "idle"
    /\ \E birth_dt \in GridBirthSamples, moon_longitude \in 0..(ArcLength - 1) :
       \E all \in {dasha_periods(birth_dt, moon_longitude)} :
       \E today \in LookupTodaySamples(all) :
          /\ chart' = [dasha |-> calculate_dasha(all, today)]
          /\ locals' = [birth_dt |-> birth_dt, moon_longitude |-> moon_longitude,
                        today |-> today]
          /\ pc' = "resolved"

\* calculate_dasha_local of VedAstroCalculator
VedAstroResolveCurrentPeriod ==
    /\ pc = "idle"
    /\ \E birth_dt \in GridBirthSamples, moon_nak_idx \in 0..26 :
       \E all \in {vedastro_dasha_periods(birth_dt, moon_nak_idx)} :
       \E today \in LookupTodaySamples(all) :
          /\ chart' = [dasha |-> calculate_dasha_local(all, today)]
          /\ locals' = [birth_dt |-> birth_dt, moon_nak_idx |-> moon_nak_idx,
                        today |-> today]
          /\ pc' = "vedastro_resolved"

LookupNext ==
    \/ ResolveCurrentPeriod
    \/ VedAstroResolveCurrentPeriod

LookupSpec == Init /\ [][LookupNext]_vars

----------------------------------------------------------------------------
(* State machine: the ayanamsa of an instant *)

\* years explored on either side of J2000.0
YearSpan == 100

\* get_ayanamsa at a Julian Day, a year of 365.25 days later, and at J2000.0
ayanamsa_readings(calc, jd) ==
    [calc |-> calc,
     ayanamsa |-> get_ayanamsa(calc, jd),
     year_later |-> get_ayanamsa(calc, jd + TicksPerYear),
     at_j2000 |-> get_ayanamsa(calc, 0)]

GetAyanamsa ==
    /\ pc = "idle"
    /\ \E calc \in Calculators, y \in (-YearSpan)..YearSpan, h \in HourSamples :
          /\ chart' = ayanamsa_readings(calc, y * TicksPerYear + h)
          /\ locals' = [jd |-> y * TicksPerYear + h]
          /\ pc' = "ayanamsa_done"

AyanamsaNext ==
    \/ GetAyanamsa
    \/ Next

AyanamsaSpec == Init /\ [][AyanamsaNext]_vars

----------------------------------------------------------------------------
(* Properties *)

Lords == {DASHA_ORDER[i] : i \in DOMAIN DASHA_ORDER}

\* C1: calculate_dasha returns exactly 9 periods whose lords are
\* DASHA_ORDER[(s + i) mod 9], i = 0..8, with s the position in DASHA_ORDER of
\* NAKSHATRA_LORDS[floor(moon / (360/27)) mod 27]; each of the 9 lords appears
\* once and the first lord is the table entry of the Janma nakshatra the chart
\* reports.
C1_DashaLords ==
    pc = "done" =>
      LET all == chart.dasha.all
          moon == locals.sidereal["Moon"]
          mansion == (moon \div NakshatraSpan) % 27
      IN /\ Len(all) = 9
         /\ \E s \in 0..8 :
              /\ DASHA_ORDER[s + 1] = NAKSHATRA_LORDS[mansion + 1]
              /\ \A i \in 0..8 : all[i + 1].lord = DASHA_ORDER[((s + i) % 9) + 1]
         /\ {all[i].lord : i \in 1..9} = Lords
         /\ Cardinality(Lords) = 9
         /\ all[1].lord = NAKSHATRA_LORDS[chart.janma_nakshatra + 1]

\* a chart whose Moon is inside the last mansion, so that the cycle wraps
C1_Witness ==
    /\ pc = "done"
    /\ chart.janma_nakshatra = 26
    /\ locals.sidereal["Moon"] % NakshatraSpan # 0
    /\ chart.dasha.all[2].lord = "Ketu"

\* C2: the periods are contiguous and ordered: the first starts at the birth
\* date, the emitted end of period i is the emitted start of period i + 1, and
\* every period has start <= end.
C2_DashaContiguous ==
    pc = "done" =>
      LET all == chart.dasha.all
      IN /\ Len(all) = 9
         /\ all[1].start = strftime(locals.birth_dt)
         /\ all[1].start_dt = locals.birth_dt
         /\ \A i \in 1..8 : /\ all[i].end = all[i + 1].start
                            /\ all[i].end_dt = all[i + 1].start_dt
         /\ \A i \in 1..9 : /\ all[i].start <= all[i].end
                            /\ all[i].start_dt <= all[i].end_dt

\* a birth away from midnight whose shortened first period ends inside a day
C2_Witness ==
    /\ pc = "done"
    /\ locals.birth_dt % TicksPerDay # 0
    /\ chart.dasha.all[1].end_dt % TicksPerDay # 0
    /\ chart.dasha.all[1].end_dt - chart.dasha.all[1].start_dt
         < DASHA_YEARS[chart.dasha.all[1].lord] * TicksPerYear

\* periods 2..9 of all last their lords' allotments and the ninth ends
\* 120 - allotment * elapsed_num / NakshatraSpan years after birth_dt
CycleLength(all, birth_dt, elapsed_num) ==
    /\ Len(all) = 9
    /\ \A i \in 2..9 :
         all[i].end_dt - all[i].start_dt = DASHA_YEARS[all[i].lord] * 365 * TicksPerDay
                                           + DASHA_YEARS[all[i].lord] * (TicksPerDay \div 4)
    /\ all[9].end_dt - birth_dt
         = MulDivRound(120 * NakshatraSpan - DASHA_YEARS[all[1].lord] * elapsed_num,
                       TicksPerYear, NakshatraSpan)

\* C3: periods 2..9 each last exactly their lord's full allotment, and the nine
\* durations add up to 120 - fullAllotment(startLord) * fractionElapsed years:
\* the last period ends that many years of 365.25 days after birth.
C3_CycleLength ==
    /\ pc = "done" =>
         CycleLength(chart.dasha.all, locals.birth_dt,
                     locals.sidereal["Moon"] % NakshatraSpan)
    /\ pc = "double_done" =>
         CycleLength(chart.dasha.all, locals.birth_dt,
                     (locals.minutes * UnitsPerArcMinute) % NakshatraSpan)

\* a chart born part-way through a mansion: the cycle is shorter than 120 years
C3_Witness ==
    /\ pc = "done"
    /\ locals.sidereal["Moon"] % NakshatraSpan = PadaSpan + OffsetStride
    /\ chart.dasha.all[9].end_dt - locals.birth_dt < 120 * TicksPerYear

\* C4: in every Dasha period the 9 Bhukti periods are contiguous, the first
\* starts at the parent's start, the last ends at the parent's end, and the
\* Bhukti durations add up to the parent's duration.
C4_BhuktiSpansDasha ==
    pc = "done" =>
      \A d \in 1..Len(chart.dasha.all) :
        LET parent == chart.dasha.all[d]
            bh == parent.bhukti
        IN /\ Len(bh) = 9
           /\ \A j \in 1..8 : bh[j].end = bh[j + 1].start
           /\ bh[1].start = parent.start
           /\ bh[9].end = parent.end
           /\ bh[9].end - bh[1].start = parent.end - parent.start

\* C5: DASHA_ORDER lists 9 distinct lords, DASHA_YEARS gives each an allotment
\* and the allotments add up to 120, NAKSHATRA_LORDS has 27 entries with
\* NAKSHATRA_LORDS[i] = DASHA_ORDER[i mod 9] (each lord 3 times, in cycle order);
\* every chart's periods are ruled by lords the tables know, from the lord of
\* its Janma nakshatra on.
C5_TablesConsistent ==
    /\ Len(DASHA_ORDER) = 9
    /\ Cardinality(Lords) = 9
    /\ DOMAIN DASHA_YEARS = Lords
    /\ DASHA_YEARS["Ketu"] + DASHA_YEARS["Venus"] + DASHA_YEARS["Sun"]
         + DASHA_YEARS["Moon"] + DASHA_YEARS["Mars"] + DASHA_YEARS["Rahu"]
         + DASHA_YEARS["Jupiter"] + DASHA_YEARS["Saturn"] + DASHA_YEARS["Mercury"] = 120
    /\ Len(NAKSHATRA_LORDS) = 27
    /\ \A i \in 0..26 : NAKSHATRA_LORDS[i + 1] = DASHA_ORDER[(i % 9) + 1]
    /\ \A l \in Lords : Cardinality({i \in 1..27 : NAKSHATRA_LORDS[i] = l}) = 3
    /\ pc = "done" =>
         /\ chart.dasha.all[1].lord = DASHA_ORDER[(chart.janma_nakshatra % 9) + 1]
         /\ \A i \in 1..9 : chart.dasha.all[i].lord \in DOMAIN DASHA_YEARS

\* a chart of the third repetition of the cycle: its Dasha starts from the lord
\* the table gives the 25th mansion
C5_Witness ==
    /\ pc = "done"
    /\ chart.janma_nakshatra = 24
    /\ chart.dasha.all[1].lord = "Jupiter"

\* C6: the lookup returns a Dasha whose [start, end] contains the reference
\* instant for every reference instant from the birth instant through the end
\* of the ninth period, and returns no Dasha and no Bhukti for a reference
\* instant before birth or after the end of the ninth period.
C6_CurrentWithinSpan ==
    pc = "done" =>
      LET all == chart.dasha.all
          today == locals.today
          cur == chart.dasha.current_dasha
      IN /\ (locals.birth_dt <= today /\ today <= all[9].end_dt) =>
              /\ cur # None
              /\ strptime(cur[1].start) <= today
              /\ today <= strptime(cur[1].end)
         /\ (today < locals.birth_dt \/ today > all[9].end_dt) =>
              /\ cur = None
              /\ chart.dasha.current_bhukti = None

\* bodies whose sidereal longitude comes from tropical_to_sidereal
Converted == IF chart.calc = "skyfield" THEN Bodies ELSE Provided

Entry(b) == IF b = "Lagna" THEN chart.lagna ELSE chart.planets[b]

\* C8: longitude_to_rasi returns floor(L / 30) in 0..11, longitude_to_nakshatra
\* a mansion floor(L / (360/27)) in 0..26 and a pada in 1..4; the 27 mansions
\* are equal segments of 13 degrees 20 minutes, a pada is a quarter of one,
\* lower bounds inclusive and upper bounds exclusive.
C8_MapperSegments ==
    /\ 27 * NakshatraSpan = FullCircle
    /\ 4 * PadaSpan = NakshatraSpan
    /\ 60 * NakshatraSpan = (13 * 60 + 20) * LonUnitsPerDegree
    /\ pc = "done" =>
         \A b \in Bodies :
           LET L == locals.sidereal[b]
               e == Entry(b)
           IN /\ e.rasi \in 0..11
              /\ e.rasi * RasiSpan <= L
              /\ L < (e.rasi + 1) * RasiSpan
              /\ e.nakshatra \in 0..26
              /\ e.nakshatra * NakshatraSpan <= L
              /\ L < (e.nakshatra + 1) * NakshatraSpan
              /\ e.pada \in 1..4
              /\ e.nakshatra * NakshatraSpan + (e.pada - 1) * PadaSpan <= L
              /\ L < e.nakshatra * NakshatraSpan + e.pada * PadaSpan
    /\ (pc = "mapped" /\ ExactDouble(locals.minutes)) =>
         LET L == locals.minutes * UnitsPerArcMinute
         IN /\ chart.rasi \in 0..11
            /\ chart.rasi * RasiSpan <= L
            /\ L < (chart.rasi + 1) * RasiSpan
            /\ chart.nakshatra \in 0..26
            /\ chart.nakshatra * NakshatraSpan <= L
            /\ L < (chart.nakshatra + 1) * NakshatraSpan
            /\ chart.pada \in 1..4
            /\ chart.nakshatra * NakshatraSpan + (chart.pada - 1) * PadaSpan <= L
            /\ L < chart.nakshatra * NakshatraSpan + chart.pada * PadaSpan

\* a body on the last point of a mansion and another on the first point of one
C8_Witness ==
    /\ pc = "done"
    /\ \E b \in Bodies : /\ locals.sidereal[b] % NakshatraSpan = NakshatraSpan - 1
                         /\ Entry(b).pada = 4
    /\ \E b \in Bodies : /\ locals.sidereal[b] % NakshatraSpan = 0
                         /\ locals.sidereal[b] > 0
                         /\ Entry(b).pada = 1

\* C9: with signIndex = longitude_to_rasi(L) and degreeInSign = L mod 30 as
\* stored in the chart, 30 * signIndex + degreeInSign = L and degreeInSign is
\* in [0, 30).
C9_SignRoundTrip ==
    pc = "done" =>
      \A b \in Bodies :
        /\ RasiSpan * Entry(b).rasi + Entry(b).paagai = locals.sidereal[b]
        /\ Entry(b).paagai >= 0
        /\ Entry(b).paagai < RasiSpan

\* C10: Ketu's longitude is (Rahu's longitude + 180) mod 360 before and after
\* the ayanamsa conversion; Ketu's sign is (Rahu's sign + 6) mod 12 and both
\* have the same degree within the sign.
C10_KetuOppositeRahu ==
    pc = "done" =>
      LET rahu == locals.sidereal["Rahu"]
          ketu == locals.sidereal["Ketu"]
      IN /\ ketu \in 0..(FullCircle - 1)
         /\ \E n \in {0, 1} : ketu = rahu + 180 * LonUnitsPerDegree - n * FullCircle
         /\ chart.calc = "skyfield" =>
              /\ locals.tropical["Ketu"] \in 0..(FullCircle - 1)
              /\ \E n \in {0, 1} :
                   locals.tropical["Ketu"]
                     = locals.tropical["Rahu"] + 180 * LonUnitsPerDegree - n * FullCircle
         /\ chart.planets["Ketu"].rasi = (chart.planets["Rahu"].rasi + 6) % 12
         /\ chart.planets["Ketu"].paagai = chart.planets["Rahu"].paagai

\* Rahu in the second half of the zodiac, so that Ketu wraps past 360
C10_Witness ==
    /\ pc = "done"
    /\ locals.sidereal["Rahu"] >= 180 * LonUnitsPerDegree
    /\ chart.planets["Rahu"].rasi = 11
    /\ chart.planets["Ketu"].rasi = 5


Rules == {RuleNames[i] : i \in DOMAIN RuleNames}

\* C11: for every pair of Moon mansion indices (0..26) and Moon sign indices
\* (0..11) calculate_compatibility produces exactly ten rule outcomes, each
\* with score 1 if and only if the rule passes and 0 otherwise; the reported
\* total is the number of passing rules, an integer in 0..10.
C11_TenRulesTotal ==
    pc = "compatibility_done" =>
      /\ DOMAIN chart.poruthams = Rules
      /\ Cardinality(Rules) = 10
      /\ \A r \in Rules : /\ chart.poruthams[r].good \in BOOLEAN
                          /\ chart.poruthams[r].value \in {0, 1}
                          /\ chart.poruthams[r].value = 1 <=> chart.poruthams[r].good
      /\ chart.total = Cardinality({r \in Rules : chart.poruthams[r].good})
      /\ chart.total \in 0..10

\* a pair of different charts with passing and failing rules
C11_Witness ==
    /\ pc = "compatibility_done"
    /\ locals.nak1_idx = 26
    /\ locals.nak2_idx = 1
    /\ locals.rasi1_idx = 11
    /\ locals.rasi2_idx = 0
    /\ chart.poruthams["dina"].good
    /\ ~chart.poruthams["stree_deergha"].good
    /\ chart.total \in 1..9

\* the rank of a verdict, lowest first
TierRank(verdict) ==
    CASE verdict = "low" -> 0
      [] verdict = "average" -> 1
      [] verdict = "good" -> 2
      [] verdict = "excellent" -> 3

\* C12: the verdict is a function of the total only, with four tiers: total
\* >= 8 the top tier, 6..7 the second, 4..5 the third, 0..3 the lowest; every
\* total in 0..10 maps to one tier and a higher total never yields a lower one.
C12_VerdictTiers ==
    /\ pc = "compatibility_done" =>
         /\ chart.total \in 8..10 <=> chart.recommendation = "excellent"
         /\ chart.total \in 6..7 <=> chart.recommendation = "good"
         /\ chart.total \in 4..5 <=> chart.recommendation = "average"
         /\ chart.total \in 0..3 <=> chart.recommendation = "low"
    /\ pc \in {"idle", "compatibility_done"} =>
         /\ \A t \in 0..10 : recommendation(t) \in {"low", "average", "good", "excellent"}
         /\ \A t \in 0..9 : TierRank(recommendation(t)) <= TierRank(recommendation(t + 1))
         /\ {recommendation(t) : t \in 0..10} = {"low", "average", "good", "excellent"}

\* a total on the lower edge of the second tier
C12_Witness ==
    /\ pc = "compatibility_done"
    /\ chart.total = 6
    /\ chart.recommendation = "good"

\* C13: a chart compared with itself has count = 1 and diff = 0 whatever its
\* mansion m and sign s: R1 (dina), R2 (gana), R4 (yoni) and R6 (vedha) pass,
\* R3 (rasi), R5 (rajju), R7 (vasya), R8 (mahendra), R9 (stree deergha) and
\* R10 (nadi) fail, the total is 4 and the verdict is the third tier.
C13_SelfCompatibility ==
    (/\ pc = "compatibility_done"
     /\ locals.nak1_idx = locals.nak2_idx
     /\ locals.rasi1_idx = locals.rasi2_idx) =>
      /\ ((locals.nak2_idx - locals.nak1_idx) % 27) + 1 = 1
      /\ (locals.rasi2_idx - locals.rasi1_idx) % 12 = 0
      /\ {r \in Rules : chart.poruthams[r].good} = {"dina", "gana", "yoni", "vedha"}
      /\ {r \in Rules : chart.poruthams[r].value = 1} = {"dina", "gana", "yoni", "vedha"}
      /\ chart.total = 4
      /\ chart.recommendation = "average"

\* the last mansion in the last sign compared with itself
C13_Witness ==
    /\ pc = "compatibility_done"
    /\ locals.nak1_idx = 26
    /\ locals.nak2_idx = 26
    /\ locals.rasi1_idx = 11
    /\ locals.rasi2_idx = 11
    /\ chart.total = 4


\* C18: datetime_to_jd counts days exactly and is monotonic in civil time: for
\* every Gregorian date of 1900..2100 and every time of the day the value for
\* the next calendar day at the same time is exactly 1 greater (month ends,
\* year ends and 29 February included), the value for 2000-01-01 12:00 is
\* 2451545.0, and int() truncation gives what the floor formula
\* floor(365.25 (y + 4716)) + floor(30.6001 (m + 1)) + d + h/24 + B - 1524.5
\* gives.
C18_JulianDayCount ==
    pc = "jd_done" =>
      LET d == locals.date
          y == IF d.month <= 2 THEN d.year - 1 ELSE d.year
          m == IF d.month <= 2 THEN d.month + 12 ELSE d.month
          floorB == 2 - (y \div 100) + ((y \div 100) \div 4)
          floorDays == ((1461 * (y + 4716)) \div 4) + ((306001 * (m + 1)) \div 10000)
                         + d.day + floorB - 1524
      IN /\ chart.jd_next - chart.jd = TicksPerDay
         /\ chart.jd < chart.jd_next
         /\ chart.jd = locals.n * TicksPerDay + d.minute - 12 * 60
         /\ chart.jd = (floorDays - 2451545) * TicksPerDay + d.minute - 12 * 60
         /\ (d.year = 2000 /\ d.month = 1 /\ d.day = 1 /\ d.minute = 12 * 60) => chart.jd = 0

\* 29 February 2000 at noon, followed by 1 March
C18_Witness ==
    /\ pc = "jd_done"
    /\ locals.date = [year |-> 2000, month |-> 2, day |-> 29, minute |-> 720]
    /\ locals.next = [year |-> 2000, month |-> 3, day |-> 1, minute |-> 720]
    /\ chart.jd = 59 * TicksPerDay


\* C20: calculate_bhukti(dashaLord, start, dashaYears) returns exactly 9
\* entries whose lords are DASHA_ORDER[(d + i) mod 9], i = 0..8, d the index
\* of dashaLord: the first is the Dasha's own lord, each lord appears once;
\* Bhukti i lasts dashaYears * fullAllotment(lord_i) / 120 years (to the
\* resolution of a timedelta), dashaYears being the balance for the first
\* Dasha and the full allotment for the others.
C20_BhuktiLordsDurations ==
    pc = "done" =>
      \A k \in 1..Len(chart.dasha.all) :
        LET parent == chart.dasha.all[k]
            bh == parent.bhukti
            balance_num == DASHA_YEARS[parent.lord]
                             * (NakshatraSpan - (locals.sidereal["Moon"] % NakshatraSpan))
        IN /\ Len(bh) = 9
           /\ \E d \in 0..8 :
                /\ DASHA_ORDER[d + 1] = parent.lord
                /\ \A i \in 0..8 : bh[i + 1].lord = DASHA_ORDER[((d + i) % 9) + 1]
           /\ bh[1].lord = parent.lord
           /\ {bh[i].lord : i \in 1..9} = Lords
           /\ \A i \in 1..9 :
                bh[i].end_dt - bh[i].start_dt
                  = IF k = 1
                    THEN MulDivRound(balance_num * DASHA_YEARS[bh[i].lord],
                                     TicksPerYear, NakshatraSpan * 120)
                    ELSE (DASHA_YEARS[parent.lord] * DASHA_YEARS[bh[i].lord] * TicksPerYear)
                           \div 120

\* a balance Dasha of Mercury, whose Bhukti cycle wraps to Ketu
C20_Witness ==
    /\ pc = "done"
    /\ locals.sidereal["Moon"] % NakshatraSpan = 3 * PadaSpan + OffsetStride
    /\ chart.dasha.all[1].lord = "Mercury"
    /\ chart.dasha.all[1].bhukti[2].lord = "Ketu"
    /\ chart.dasha.all[2].bhukti[9].lord = "Mercury"


\* C17: chart calculation is a deterministic function of its explicit inputs:
\* two invocations of calculate_birth_chart with identical inputs and
\* identical collaborator answers, made at different wall-clock times, return
\* identical values in every field, the whole Dasha section included.
C17_SameInputsSameChart ==
    pc = "done_again" => chart = locals.first


\* C15: when the position backend is unavailable (a request raises, times out
\* or answers with a non-200 status) no chart is returned with a missing, empty
\* or defaulted placement, and no compatibility result is computed from
\* substituted indices: a returned chart holds every planet and the Lagna under
\* their names, and a compatibility result rests on answered Moon requests.
C15_NoDefaultedPlacements ==
    /\ pc = "vedastro_done" =>
          /\ \A b \in DOMAIN chart.planets :
                /\ chart.planets[b] # None
                /\ chart.planets[b][1].rasi_en # 0
                /\ chart.planets[b][1].nakshatra_en # 0
          /\ chart.lagna # None
          /\ chart.lagna[1].rasi_en # 0
          /\ chart.rasi # ""
          /\ chart.janma_nakshatra # ""
    /\ pc = "vedastro_compatibility_done" =>
          \A r \in {<<"Moon", "PlanetZodiacSign">>, <<"Moon", "PlanetConstellation">>} :
             /\ locals.outcome1[r] = "ok"
             /\ locals.outcome2[r] = "ok"

\* C19: in every calculator the first Dasha lasts the lord's full allotment
\* times (1 - fraction of the mansion the Moon has traversed): more than zero,
\* at most the full allotment, and the full allotment exactly when the Moon is
\* at the start of its mansion.
C19_FirstDashaBalance ==
    (pc \in {"done", "vedastro_done"} /\ chart.dasha.all # <<>>) =>
        LET position_num == locals.sidereal["Moon"] % NakshatraSpan
            first == chart.dasha.all[1]
            full == DASHA_YEARS[first.lord]
            duration == first.end_dt - first.start_dt
        IN /\ duration = timedelta_years(full * (NakshatraSpan - position_num), NakshatraSpan)
           /\ first.years_x100 = MulDivRound(full * (NakshatraSpan - position_num), 100,
                                             NakshatraSpan)
           /\ duration > 0
           /\ duration <= timedelta_years(full, 1)
           /\ (position_num = 0 <=> duration = timedelta_years(full, 1))


\* C16: location resolution never ends in a hard failure: for every outcome
\* of the geocoder and the timezone finder (found, not found, exception, no
\* timezone) get_location_coords yields either resolved coordinates with a
\* usable timezone identifier or the default (13.0827, 80.2707,
\* Asia/Kolkata), and the civil-to-UTC conversion that follows succeeds.
C16_LocationAlwaysUsable ==
    pc = "localized" =>
        /\ \/ chart.coords = DEFAULT_LOCATION
           \/ /\ locals.location.kind = "found"
              /\ chart.coords.lat = locals.location.lat
              /\ chart.coords.lon = locals.location.lon
              /\ chart.coords.tz_name # None
              /\ chart.coords.tz_name[1] \in DOMAIN ZoneOffsets
        /\ chart.conversion.status = "ok"


\* a birth date or birth time that is missing or malformed
UnusableDate(field) == field = None \/ parse_date(field[1]) = None

UnusableTime(field) == field = None \/ parse_time(field[1]) = None

CarriesUnusable(person) ==
    UnusableDate(person.birth_date) \/ UnusableTime(person.birth_time)

\* C14: a malformed or missing birth date or birth time is never silently
\* defaulted: every chart or compatibility request carrying one ends in an
\* error, and no result is computed from a substituted value.
C14_NoSilentDefault ==
    pc = "responded" =>
        /\ (locals.endpoint = "birth-chart" /\ CarriesUnusable(locals.data))
              => chart.status # 200
        /\ (locals.endpoint = "compatibility"
              /\ (CarriesUnusable(locals.data.person1) \/ CarriesUnusable(locals.data.person2)))
              => chart.status # 200


\* C21: whenever the current-period lookup returns a current Dasha it also
\* returns a current Bhukti; that Bhukti is one of the nine Bhuktis of the
\* returned Dasha, its [start, end] contains the reference instant and lies
\* within the Dasha's [start, end]; a current Bhukti is never returned
\* without a current Dasha.
C21_BhuktiInsideCurrentDasha ==
    pc = "resolved" =>
        /\ chart.dasha.current_dasha = None => chart.dasha.current_bhukti = None
        /\ chart.dasha.current_dasha # None =>
              /\ chart.dasha.current_bhukti # None
              /\ LET d == chart.dasha.current_dasha[1]
                     b == chart.dasha.current_bhukti[1]
                     parent == chart.dasha.all[d.index]
                 IN /\ b.index \in 1..9
                    /\ b.lord = parent.bhukti[b.index].lord
                    /\ b.start = parent.bhukti[b.index].start
                    /\ b.end = parent.bhukti[b.index].end
                    /\ strptime(b.start) <= locals.today
                    /\ locals.today <= strptime(b.end)
                    /\ strptime(d.start) <= strptime(b.start)
                    /\ strptime(b.end) <= strptime(d.end)


\* the entry a lookup returned is the given period
Returned(entry, period) ==
    /\ entry.lord = period.lord
    /\ entry.start = period.start
    /\ entry.end = period.end

Contains(period, today) ==
    strptime(period.start) <= today /\ today <= strptime(period.end)

\* today is the boundary shared by periods i and i + 1
OnSharedBoundary(periods, i, today) ==
    periods[i].end = periods[i + 1].start /\ today = strptime(periods[i].end)

\* the lookup returned the earliest period holding today, one not after period i
EarlierSide(periods, i, found, today) ==
    /\ found # None
    /\ \E j \in 1..i :
          /\ Returned(found[1], periods[j])
          /\ \A k \in 1..(j - 1) : ~Contains(periods[k], today)

\* the lookup returned period i + 1
LaterSide(periods, i, found) ==
    found # None /\ Returned(found[1], periods[i + 1])

\* the Bhuktis of the Dasha the lookup returned
BhuktisOfCurrent ==
    chart.dasha.all[CHOOSE d \in 1..9 :
                       Returned(chart.dasha.current_dasha[1], chart.dasha.all[d])].bhukti

\* C22 (as the code has it): on a boundary shared by two adjacent periods the
\* lookup picks one side consistently, at the Dasha level and at the Bhukti
\* level: the earlier period i (the first whose closed range holds the
\* instant) is returned, never the later period i + 1.
C22_BoundaryEarlier ==
    pc \in {"resolved", "vedastro_resolved"} =>
        /\ \A i \in 1..8 :
              OnSharedBoundary(chart.dasha.all, i, locals.today)
                 => EarlierSide(chart.dasha.all, i, chart.dasha.current_dasha, locals.today)
        /\ chart.dasha.current_dasha # None =>
              \A i \in 1..8 :
                 OnSharedBoundary(BhuktisOfCurrent, i, locals.today)
                    => EarlierSide(BhuktisOfCurrent, i, chart.dasha.current_bhukti,
                                   locals.today)

\* C22 (as stated): on a boundary shared by two adjacent periods the later
\* period i + 1 is returned, at the Dasha level and at the Bhukti level.
C22_BoundaryLater ==
    pc \in {"resolved", "vedastro_resolved"} =>
        /\ \A i \in 1..8 :
              OnSharedBoundary(chart.dasha.all, i, locals.today)
                 => LaterSide(chart.dasha.all, i, chart.dasha.current_dasha)
        /\ chart.dasha.current_dasha # None =>
              \A i \in 1..8 :
                 OnSharedBoundary(BhuktisOfCurrent, i, locals.today)
                    => LaterSide(BhuktisOfCurrent, i, chart.dasha.current_bhukti)

\* a reading on the boundary of the eighth and ninth Bhukti of the second
\* Dasha, resolved to the eighth
C22_Witness ==
    /\ pc = "resolved"
    /\ chart.dasha.current_dasha # None
    /\ chart.dasha.current_dasha[1].index = 2
    /\ OnSharedBoundary(chart.dasha.all[2].bhukti, 8, locals.today)
    /\ chart.dasha.current_bhukti # None
    /\ chart.dasha.current_bhukti[1].index = 8


\* the J2000 anchor of a calculator's ayanamsa model
Anchor(calc) == IF calc = "astro" THEN AYANAMSA_BASE ELSE AYANAMSA_J2000

\* 50.29 arcseconds in longitude units (50.29 / 3600 degrees), rounded
RateUnitsPerYear == 419

\* C23: in every calculator get_ayanamsa is a linear, strictly increasing
\* function of the Julian Day that equals its J2000 anchor at JD 2451545.0 and
\* grows by about 50.29 arcseconds per year of 365.25 days (here: within one
\* arcsecond of it, the anchor line met within one unit); within one chart the
\* same ayanamsa is applied to every body and to the Ascendant.
C23_AyanamsaLinearRate ==
    /\ pc = "ayanamsa_done" =>
          /\ chart.at_j2000 = Anchor(chart.calc)
          /\ chart.year_later > chart.ayanamsa
          /\ Abs((chart.year_later - chart.ayanamsa) - RateUnitsPerYear) <= 8
          /\ Abs(chart.ayanamsa
                   - (Anchor(chart.calc)
                        + MulDivFloor(locals.jd, PRECESSION_RATE_NUM, PRECESSION_RATE_DEN)))
                <= 1 + (Abs(locals.jd) \div TicksPerYear) * 8
    /\ pc = "done" =>
          \A b \in Bodies :
             locals.sidereal[b] = tropical_to_sidereal(locals.tropical[b], chart.ayanamsa)


\* the count from the first mansion to the second, both included, and the
\* number of signs from the first to the second
CountFrom(nak1_idx, nak2_idx) ==
    IF nak2_idx >= nak1_idx THEN nak2_idx - nak1_idx + 1 ELSE nak2_idx - nak1_idx + 28

DiffFrom(rasi1_idx, rasi2_idx) ==
    IF rasi2_idx >= rasi1_idx THEN rasi2_idx - rasi1_idx ELSE rasi2_idx - rasi1_idx + 12

\* C24: within one compatibility evaluation R1 (Dina), R8 (Mahendra) and R9
\* (Stree Deergha) are decided by one and the same count
\* ((mansion2 - mansion1) mod 27) + 1, always in 1..27, and R3 (Rasi) and R7
\* (Vasya) by one and the same diff (sign2 - sign1) mod 12, always in 0..11.
C24_SharedCountAndDiff ==
    pc = "compatibility_done" =>
        LET count == CountFrom(locals.nak1_idx, locals.nak2_idx)
            diff == DiffFrom(locals.rasi1_idx, locals.rasi2_idx)
        IN /\ count \in 1..27
           /\ diff \in 0..11
           /\ chart.poruthams["dina"].good
                 <=> count \notin {2, 4, 6, 8, 9, 11, 13, 15, 18, 20, 22, 24, 26}
           /\ chart.poruthams["mahendra"].good <=> count \in {4, 7, 10, 13, 16, 19, 22, 25}
           /\ chart.poruthams["stree_deergha"].good <=> count >= 13
           /\ chart.poruthams["rasi"].good <=> diff \in {1, 2, 3, 4, 5, 7, 9, 11}
           /\ chart.poruthams["vasya"].good <=> diff \in {2, 5, 6, 8, 9}

\* the second mansion before the first: count 16 wraps around, diff 5 too;
\* the five rules pass
C24_Witness ==
    /\ pc = "compatibility_done"
    /\ locals.nak1_idx = 20
    /\ locals.nak2_idx = 8
    /\ locals.rasi1_idx = 9
    /\ locals.rasi2_idx = 2
    /\ chart.poruthams["dina"].good
    /\ chart.poruthams["mahendra"].good
    /\ chart.poruthams["stree_deergha"].good
    /\ chart.poruthams["rasi"].good
    /\ chart.poruthams["vasya"].good

\* the groups of a table form a partition of the 27 mansion indices
Partitions(groups) ==
    \A idx \in 0..26 : Cardinality({g \in DOMAIN groups : idx \in groups[g]}) = 1

GanaSets == [g \in DOMAIN gana_groups |-> gana_groups[g].naks]

\* C25: each of the three group tables partitions the 27 mansion indices (R2
\* with sizes 8, 9, 10; R5 and R10 with sizes 9, 9, 9, and different from one
\* another), so no lookup leaves a mansion unassigned, and R2 passes exactly
\* when both mansions are in the same group or either is in the first group.
C25_GroupTablesPartition ==
    pc = "compatibility_done" =>
        /\ Partitions(GanaSets) /\ Partitions(rajju_groups) /\ Partitions(nadi_groups)
        /\ <<Cardinality(GanaSets[1]), Cardinality(GanaSets[2]), Cardinality(GanaSets[3])>>
              = <<8, 9, 10>>
        /\ \A g \in 1..3 : Cardinality(rajju_groups[g]) = 9 /\ Cardinality(nadi_groups[g]) = 9
        /\ {rajju_groups[g] : g \in 1..3} # {nadi_groups[g] : g \in 1..3}
        /\ \A idx \in {locals.nak1_idx, locals.nak2_idx} :
              /\ idx \in GanaSets[IndexIn(<<"deva", "manitha", "asura">>, GanaOf(idx))]
              /\ idx \in rajju_groups[GroupOf(rajju_groups, idx) + 1]
              /\ idx \in nadi_groups[GroupOf(nadi_groups, idx) + 1]
        /\ chart.poruthams["gana"].good
              <=> \/ \E g \in 1..3 : {locals.nak1_idx, locals.nak2_idx} \subseteq GanaSets[g]
                  \/ locals.nak1_idx \in GanaSets[1]
                  \/ locals.nak2_idx \in GanaSets[1]
        /\ chart.poruthams["rajju"].good
              <=> ~\E g \in 1..3 : {locals.nak1_idx, locals.nak2_idx} \subseteq rajju_groups[g]
        /\ chart.poruthams["nadi"].good
              <=> ~\E g \in 1..3 : {locals.nak1_idx, locals.nak2_idx} \subseteq nadi_groups[g]

\* mansions 26 (first group) and 2 (third group): R2 passes by the first
\* group alone; R5 fails (same group) and R10 fails (same group)
C25_Witness ==
    /\ pc = "compatibility_done"
    /\ locals.nak1_idx = 26
    /\ locals.nak2_idx = 2
    /\ chart.poruthams["gana"].good
    /\ ~chart.poruthams["rajju"].good
    /\ ~chart.poruthams["nadi"].good

\* C26: for every pair of mansion indices R8 (Mahendra) and R10 (Nadi) never
\* both pass, because R8 passing forces the two mansions to be congruent
\* modulo 3; so the total is at most 9 and 10 is reached for no input.
C26_MahendraExcludesNadi ==
    pc = "compatibility_done" =>
        /\ ~(chart.poruthams["mahendra"].good /\ chart.poruthams["nadi"].good)
        /\ chart.poruthams["mahendra"].good => locals.nak1_idx % 3 = locals.nak2_idx % 3
        /\ chart.total <= 9
        /\ chart.total # 10

\* R8 passes (count 4) and R10 fails
C26_Witness ==
    /\ pc = "compatibility_done"
    /\ locals.nak1_idx = 0
    /\ locals.nak2_idx = 3
    /\ chart.poruthams["mahendra"].good
    /\ ~chart.poruthams["nadi"].good


\* both requests about the Moon were answered
MoonAnswered(outcome) ==
    /\ outcome[<<"Moon", "PlanetZodiacSign">>] = "ok"
    /\ outcome[<<"Moon", "PlanetConstellation">>] = "ok"

\* C27: in the remote-service calculator the Tamil name NAKSHATRA_MAP gives
\* for each of the 27 mansion names is the element of NAKSHATRAS_TAMIL at the
\* same position; so for a Moon in any mansion the chart gets a nine-period
\* Dasha sequence starting from that mansion's lord, and compatibility uses
\* that mansion's index.
C27_MansionNamesAgree ==
    /\ pc \in {"vedastro_done", "vedastro_compatibility_done"} =>
          \A i \in 1..27 : NAKSHATRA_MAP[NAKSHATRA_KEYS[i]] = NAKSHATRAS_TAMIL[i]
    /\ (pc = "vedastro_done" /\ MoonAnswered(locals.outcome)) =>
          /\ Len(chart.dasha.all) = 9
          /\ chart.dasha.all[1].lord
                = NAKSHATRA_LORDS[longitude_to_nakshatra(locals.sidereal["Moon"]).nakshatra + 1]
    /\ (pc = "vedastro_compatibility_done"
          /\ MoonAnswered(locals.outcome1) /\ MoonAnswered(locals.outcome2)) =>
          /\ chart.person1.nakshatra
                = longitude_to_nakshatra(locals.sidereal1["Moon"]).nakshatra
          /\ chart.person2.nakshatra
                = longitude_to_nakshatra(locals.sidereal2["Moon"]).nakshatra


\* the birth fields of a request name an instant the calculator can parse
Castable(date, time) == parse_birth(date, time) # None

\* C28: unavailability of the AI agent (none configured, or its call raising)
\* never makes a core endpoint fail: the prediction request still succeeds
\* with the computed chart and kattam, and the compatibility request still
\* succeeds with the computed compatibility result.
C28_AiUnavailableNeverFails ==
    (pc = "responded" /\ locals.endpoint \in {"prediction", "compatibility"}
       /\ locals.ai_agent # "answers") =>
        /\ (locals.endpoint = "prediction"
              /\ Castable(format_field(locals.data.birth_date),
                          format_field(locals.data.birth_time)))
              => /\ chart.status = 200
                 /\ chart.success
                 /\ chart.kattam = get_jathaga_kattam(chart.chart)
        /\ (locals.endpoint = "compatibility"
              /\ locals.person1 # None /\ locals.person2 # None
              /\ Castable(locals.person1[1].date, locals.person1[1].time)
              /\ Castable(locals.person2[1].date, locals.person2[1].time))
              => chart.status = 200


\* C29: the four copies of calculate_compatibility are equivalent: for the
\* same Moon mansion names and Moon sign names from the valid tables they
\* return identical outcomes of all ten rules, the same total and the same
\* verdict.
C29_CopiesAgree ==
    pc = "copies_done" =>
        \A c1 \in AllCalculators, c2 \in AllCalculators :
            /\ DOMAIN chart[c1] = DOMAIN chart[c2]
            /\ "raised" \notin DOMAIN chart[c1]
            /\ \A i \in DOMAIN RuleNames :
                  chart[c1].poruthams[RuleNames[i]] = chart[c2].poruthams[RuleNames[i]]
            /\ chart[c1].total = chart[c2].total
            /\ chart[c1].recommendation = chart[c2].recommendation

\* the second Moon is 12 mansions after the first (count 13), where rule 9
\* starts to pass, in the first and in the last copy
C29_Witness ==
    /\ pc = "copies_done"
    /\ locals.nak1 = NAKSHATRAS_TAMIL[1]
    /\ locals.nak2 = NAKSHATRAS_TAMIL[13]
    /\ chart["vedastro"].poruthams["stree_deergha"].good
    /\ chart["astro"].poruthams["stree_deergha"].good


\* C30: the sign and the mansion/pada derived from one sidereal longitude are
\* consistent: at every arc-minute of [0, 360) the sign is
\* floor((4 * mansion + (pada - 1)) / 9), so each of the 108 padas lies inside
\* one sign, nine padas per sign.
C30_SignMatchesPada ==
    pc = "mapped" =>
        /\ chart.nakshatra \in 0..26
        /\ chart.pada \in 1..4
        /\ chart.rasi = (4 * chart.nakshatra + (chart.pada - 1)) \div 9

====
